---- MODULE Spec2Model ----
(***************************************************************************)
(* WorkingDB core: the partitioned in-memory table (storage/memory.rs),    *)
(* the append-only log (persistence/aof.rs), the coordinating state        *)
(* (core/state.rs) and the CRC-64 checksum (util/crc64.rs).                *)
(*                                                                         *)
(* Byte strings are sequences of integers 0..255.  Fixed-width integers    *)
(* are little-endian byte sequences (the header is written as the raw      *)
(* memory of a packed struct on a little-endian host), so that 64-bit      *)
(* arithmetic keeps its width.                                             *)
(***************************************************************************)
EXTENDS Integers, Sequences, FiniteSets, TLC

(***************************************************************************)
(* Fixed-width arithmetic                                                  *)
(***************************************************************************)
Byte == 0..255

RECURSIVE Pow2(_)
Pow2(n) == IF n = 0 THEN 1 ELSE 2 * Pow2(n - 1)

\* bit i (0 = least significant) of a byte
BitOf(b, i) == (b \div Pow2(i)) % 2

\* b as 8 bits, least significant first
BitsOfByte(b) == [i \in 1..8 |-> BitOf(b, i - 1)]

RECURSIVE ConcatAll(_)
ConcatAll(ss) == IF ss = <<>> THEN <<>> ELSE Head(ss) \o ConcatAll(Tail(ss))

\* a little-endian byte sequence as bits, least significant first
BitsOfBytes(bs) == ConcatAll([i \in 1..Len(bs) |-> BitsOfByte(bs[i])])

ByteOfBits(bits, k) ==
    bits[8*k+1] + 2*bits[8*k+2] + 4*bits[8*k+3] + 8*bits[8*k+4]
    + 16*bits[8*k+5] + 32*bits[8*k+6] + 64*bits[8*k+7] + 128*bits[8*k+8]

BytesOfBits(bits) == [k \in 1..(Len(bits) \div 8) |-> ByteOfBits(bits, k - 1)]

XorBits(a, b) == [i \in 1..Len(a) |-> (a[i] + b[i]) % 2]

XorByte(a, b) == ByteOfBits(XorBits(BitsOfByte(a), BitsOfByte(b)), 0)

\* n (0 <= n < 2^31) as a w-byte little-endian integer, truncated like `as uW`
RECURSIVE LE(_, _)
LE(n, w) == IF w = 0 THEN <<>> ELSE <<n % 256>> \o LE(n \div 256, w - 1)

\* value of a little-endian byte sequence; Overflow when it exceeds Big
Big == 1000000
RECURSIVE FromLE(_)
FromLE(bs) ==
    IF bs = <<>> THEN 0
    ELSE LET hi == FromLE(Tail(bs))
         IN  IF hi >= Big THEN Big ELSE Head(bs) + 256 * hi

(***************************************************************************)
(* util/crc64.rs                                                           *)
(***************************************************************************)
\* const POLY: u64 = 0xC96C5795D7870F42, as little-endian bytes
POLY == <<66, 15, 135, 215, 149, 87, 108, 201>>

\* a ^ b for 4-bit halves, tabulated, and for bytes
XorTable ==
    [a \in 1..16 |-> [b \in 1..16 |-> XorByte(a - 1, b - 1)] \o <<>>] \o <<>>
XorNibble(a, b) == XorTable[a + 1][b + 1]
Xor8(a, b) == XorNibble(a % 16, b % 16) + 16 * XorNibble(a \div 16, b \div 16)

\* a ^ b on the little-endian bytes of two u64
Xor64(a, b) == [i \in 1..8 |-> Xor8(a[i], b[i])] \o <<>>

\* crc >> 1 on the little-endian bytes of a u64
Shr1(c) ==
    << c[1] \div 2 + (c[2] % 2) * 128, c[2] \div 2 + (c[3] % 2) * 128,
       c[3] \div 2 + (c[4] % 2) * 128, c[4] \div 2 + (c[5] % 2) * 128,
       c[5] \div 2 + (c[6] % 2) * 128, c[6] \div 2 + (c[7] % 2) * 128,
       c[7] \div 2 + (c[8] % 2) * 128, c[8] \div 2 >>

\* let mut crc: u64 = 0xFFFFFFFFFFFFFFFF
CrcInit == <<255, 255, 255, 255, 255, 255, 255, 255>>

\* one turn of the inner loop: if crc & 1 == 1 { (crc >> 1) ^ POLY } else { crc >> 1 }
CrcBitStep(crc) ==
    IF crc[1] % 2 = 1 THEN Xor64(Shr1(crc), POLY) ELSE Shr1(crc)

\* for _ in 0..8 { ... }
CrcEightBits(crc) ==
    CrcBitStep(CrcBitStep(CrcBitStep(CrcBitStep(
    CrcBitStep(CrcBitStep(CrcBitStep(CrcBitStep(crc))))))))

\* The eight bit steps are linear over xor and only the low byte decides which
\* steps xor POLY in, so they are tabulated per low byte:
\* CrcEightBits(c) = CrcEightBits(<<c[1],0,..,0>>) ^ (c >> 8)
CrcTable ==
    [b \in 1..256 |-> CrcEightBits(<<b - 1, 0, 0, 0, 0, 0, 0, 0>>)] \o <<>>

\* one turn of the outer loop: crc ^= byte as u64; then the 8 bit steps
CrcByteStep(crc, byte) ==
    Xor64(CrcTable[Xor8(crc[1], byte) + 1],
          <<crc[2], crc[3], crc[4], crc[5], crc[6], crc[7], crc[8], 0>>)

\* for &byte in data { ... }  (each step's value is computed before the next)
RECURSIVE CrcFold(_, _, _)
CrcFold(crc, data, i) ==
    IF i > Len(data) THEN crc
    ELSE LET c == CrcByteStep(crc, data[i])
         IN  IF Len(c) = 8 THEN CrcFold(c, data, i + 1) ELSE <<>>

\* !crc on the little-endian bytes of a u64
Not64(c) == [i \in 1..8 |-> 255 - c[i]] \o <<>>

\* calculate_crc: the result as its 8 little-endian bytes
calculate_crc(data) == Not64(CrcFold(CrcInit, data, 1))

(***************************************************************************)
(* storage/memory.rs: hash_key (FNV-1a, 64 bit, wrapping)                  *)
(***************************************************************************)
\* 14695981039346656037 = 0xCBF29CE484222325
FnvOffsetBasis == <<37, 35, 34, 132, 228, 156, 242, 203>>

\* hash.wrapping_mul(1099511628211): the prime is 0x00000100000001B3
\* = 2^40 + 2^8 + 179, so byte k of the product is
\* 179 * h[k] + h[k-1] + h[k-5] plus the carry, and the carry out of byte 8 is lost
wrapping_mul_prime(h) ==
    LET s1 == 179 * h[1]
        s2 == 179 * h[2] + h[1] + s1 \div 256
        s3 == 179 * h[3] + h[2] + s2 \div 256
        s4 == 179 * h[4] + h[3] + s3 \div 256
        s5 == 179 * h[5] + h[4] + s4 \div 256
        s6 == 179 * h[6] + h[5] + h[1] + s5 \div 256
        s7 == 179 * h[7] + h[6] + h[2] + s6 \div 256
        s8 == 179 * h[8] + h[7] + h[3] + s7 \div 256
    IN  <<s1 % 256, s2 % 256, s3 % 256, s4 % 256,
          s5 % 256, s6 % 256, s7 % 256, s8 % 256>>

\* (variant) FNV-1: the multiplication first, the XOR after it
FnvStepMulFirst(hash, byte) ==
    LET m == wrapping_mul_prime(hash)
    IN  <<Xor8(m[1], byte), m[2], m[3], m[4], m[5], m[6], m[7], m[8]>>
\* hash ^= *byte as u64; hash = hash.wrapping_mul(..)
FnvStep(hash, byte) ==
    wrapping_mul_prime(<<Xor8(hash[1], byte), hash[2], hash[3], hash[4],
                         hash[5], hash[6], hash[7], hash[8]>>)

\* for byte in key { ... } over key[lo..hi], in order; the range is halved so
\* that a key of 65,536 bytes is folded at a depth of 16
RECURSIVE FnvFold(_, _, _, _)
FnvFold(hash, key, lo, hi) ==
    IF lo > hi THEN hash
    ELSE IF lo = hi THEN FnvStep(hash, key[lo])
    ELSE LET h == FnvFold(hash, key, lo, (lo + hi) \div 2)
         IN  IF Len(h) = 8 THEN FnvFold(h, key, (lo + hi) \div 2 + 1, hi) ELSE <<>>

hash_key(key) == FnvFold(FnvOffsetBasis, key, 1, Len(key))

\* hash % n for a 64-bit little-endian hash (bytes i..8 as a number, mod n)
RECURSIVE ModLE(_, _, _)
ModLE(h, n, i) ==
    IF i > Len(h) THEN 0 ELSE (h[i] + 256 * ModLE(h, n, i + 1)) % n

(***************************************************************************)
(* Bounds of the model                                                     *)
(***************************************************************************)
\* u16::MAX, the longest key key_size can say
U16Max == 65535
\* shard count given to MemTable::with_partitions
NumShards == 3
\* the clock runs 0..MaxClock (in ticks)
MaxClock == 3
\* ticks per millisecond (a Duration is finer than a millisecond)
TicksPerMs == 2
\* records the log file may hold
MaxRecs == 2
\* State.get calls counted by the statistics
MaxReads == 1

Keys == {<<107>>, <<97>>}              \* b"k", b"a"
\* the inputs of the direct calls on the log
LogKeys == {<<107>>, <<107, 50>>}      \* b"k", b"k2"
LogValues == {<<118>>}                 \* b"v"
LogTtls == {<<>>, <<2>>}
\* a key one byte longer than key_size: u16 can say
BigKey == [i \in 1..(U16Max + 1) |-> 107] \o <<>>
BigKeys == {<<107>>, BigKey}
AllKeys == Keys \cup LogKeys \cup BigKeys
Values == {<<118>>, <<118, 50>>}       \* b"v", b"v2"
\* Option<Duration>: <<>> is None, <<d>> is Some(d ticks)
Ttls == {<<>>, <<0>>, <<1>>}
Threads == {1, 2}
Shards == 0..(NumShards - 1)

\* Option
None == <<>>
Some(x) == <<x>>
IsSome(o) == o # <<>>
Unwrap(o) == o[1]

VARIABLES
    now,          \* the clock (Instant::now(), SystemTime::now()), in ticks
    partitions,   \* MemTable.partitions: shard index -> map key -> Entry
    poisoned,     \* shards whose RwLock is poisoned
    file,         \* the bytes of the log file on disk
    aof,          \* AppendOnlyFile: position, replay_count, the BufWriter's
                  \* buffer (wbuf) and the shared file offset (fpos)
    up,           \* "up": the process runs; "down": it is stopped;
                  \* "failed": AppendOnlyFile::new returned an error
    aofPoisoned,  \* the Mutex around the AppendOnlyFile is poisoned
    stats,        \* GlobalState.stats
    pc,           \* per thread: the State call in progress
    ret,          \* what the call that just returned gave back
    written,      \* history: per key, the last write the Table accepted
    recs,         \* history: the records handed to the log, in file order
    damage,       \* history: where the file was altered while closed
    iofails,      \* history: the write errors injected so far
    gc,           \* GarbageCollector, its background thread and the sweep
                  \* in progress
    chaos         \* ChaosEngine.active and the chaos thread

tableVars == <<partitions, poisoned>>
logVars == <<file, aof, aofPoisoned>>
histVars == <<written, recs, damage, iofails>>
vars == <<now, partitions, poisoned, file, aof, up, aofPoisoned, stats, pc,
          ret, written, recs, damage, iofails, gc, chaos>>

(***************************************************************************)
(* storage/memory.rs: MemTable                                             *)
(***************************************************************************)
\* with_partitions(count): count empty maps
with_partitions(count) == [i \in 0..(count - 1) |-> <<>>]

\* hash % self.partition_count, computed once for each key the model uses
PartitionIndex == [k \in AllKeys |-> ModLE(hash_key(k), NumShards, 1)] @@ <<>>
get_partition_for_key(key) == PartitionIndex[key]

\* (variant) an insert that keeps the entry a key already has
InsertIfAbsent(map, key, entry) == map @@ (key :> entry)
\* (variant) an insert that gives a key already present the new value and
\* leaves it the expiry it had
InsertKeepExpiry(map, key, entry) ==
    IF key \in DOMAIN map
    THEN (key :> [entry EXCEPT !.expires_at = map[key].expires_at]) @@ map
    ELSE (key :> entry) @@ map
Insert(map, key, entry) == (key :> entry) @@ map
\* (variant) a remove that leaves the map as it is
RemoveNothing(map, key) == map
Remove(map, key) == [x \in (DOMAIN map) \ {key} |-> map[x]]

\* ttl.map(|d| Instant::now() + d)
ExpiresAt(ttl, t) == IF IsSome(ttl) THEN Some(t + Unwrap(ttl)) ELSE None

\* (variant) an entry counted as expired from its expiry instant on
ExpiredAtOrAfter(entry, t) == IsSome(entry.expires_at) /\ t >= Unwrap(entry.expires_at)
\* if let Some(expires) = entry.expires_at { if now > expires {..} }
Expired(entry, t) == IsSome(entry.expires_at) /\ t > Unwrap(entry.expires_at)

\* MemTable::get: None on a lock failure, on a missing key, on an expired entry
MemGet(parts, bad, key, t) ==
    LET idx == get_partition_for_key(key)
    IN  IF idx \in bad THEN None
        ELSE IF key \notin DOMAIN parts[idx] THEN None
        ELSE IF Expired(parts[idx][key], t) THEN None
        ELSE Some(parts[idx][key].value)

\* MemTable::set
MemSet(parts, bad, key, value, ttl, t) ==
    LET idx == get_partition_for_key(key)
        entry == [value |-> value, expires_at |-> ExpiresAt(ttl, t)]
    IN  IF idx \in bad
        THEN [ok |-> FALSE, err |-> "Failed to acquire write lock", parts |-> parts]
        ELSE [ok |-> TRUE, err |-> "",
              parts |-> [parts EXCEPT ![idx] = Insert(@, key, entry)]]

\* (variant) a delete that reports only the entries stored without an expiry
MemDeleteUnexpiring(parts, bad, key) ==
    LET idx == get_partition_for_key(key)
    IN  IF idx \in bad
        THEN [ok |-> FALSE, err |-> "Failed to acquire write lock", val |-> FALSE,
              parts |-> parts]
        ELSE [ok |-> TRUE, err |-> "",
              val |-> /\ key \in DOMAIN parts[idx]
                      /\ parts[idx][key].expires_at = None,
              parts |-> [parts EXCEPT ![idx] = Remove(@, key)]]
\* MemTable::delete
MemDelete(parts, bad, key) ==
    LET idx == get_partition_for_key(key)
    IN  IF idx \in bad
        THEN [ok |-> FALSE, err |-> "Failed to acquire write lock", val |-> FALSE,
              parts |-> parts]
        ELSE [ok |-> TRUE, err |-> "", val |-> key \in DOMAIN parts[idx],
              parts |-> [parts EXCEPT ![idx] = Remove(@, key)]]

\* (variant) a recover_set that stores every entry without an expiry
RecoverSetNoExpiry(parts, bad, key, value, ttl, t) ==
    LET idx == get_partition_for_key(key)
        entry == [value |-> value, expires_at |-> None]
    IN  IF idx \in bad
        THEN [ok |-> FALSE, err |-> "Lock error", parts |-> parts]
        ELSE [ok |-> TRUE, err |-> "",
              parts |-> [parts EXCEPT ![idx] = Insert(@, key, entry)]]
\* recover_set, recover_delete: the replay entry points
recover_set(parts, bad, key, value, ttl, t) ==
    LET idx == get_partition_for_key(key)
        entry == [value |-> value, expires_at |-> ExpiresAt(ttl, t)]
    IN  IF idx \in bad
        THEN [ok |-> FALSE, err |-> "Lock error", parts |-> parts]
        ELSE [ok |-> TRUE, err |-> "",
              parts |-> [parts EXCEPT ![idx] = Insert(@, key, entry)]]

recover_delete(parts, bad, key) ==
    LET idx == get_partition_for_key(key)
    IN  IF idx \in bad
        THEN [ok |-> FALSE, err |-> "Lock error", val |-> FALSE, parts |-> parts]
        ELSE [ok |-> TRUE, err |-> "", val |-> key \in DOMAIN parts[idx],
              parts |-> [parts EXCEPT ![idx] = Remove(@, key)]]

\* (variant) a filter that takes every key, expired or not
GcRemoveAll(map, t) == DOMAIN map
\* (variant) a filter that takes an entry from its expiry instant on
GcRemoveAtExpiry(map, t) ==
    {k \in DOMAIN map : IsSome(map[k].expires_at) /\ t >= Unwrap(map[k].expires_at)}
\* MemTable::gc, the filter_map of one partition: the keys to remove
GcToRemove(map, t) == {k \in DOMAIN map : Expired(map[k], t)}

\* one partition of MemTable::gc: the map afterwards and the number removed
\* (a partition whose lock cannot be taken is skipped)
GcPartition(parts, bad, idx, t) ==
    IF idx \in bad THEN [map |-> parts[idx], removed |-> 0]
    ELSE LET to_remove == GcToRemove(parts[idx], t)
         IN  [map |-> [x \in (DOMAIN parts[idx]) \ to_remove |-> parts[idx][x]],
              removed |-> Cardinality(to_remove)]

\* MemTable::gc: for partition in &self.partitions { ... } total_removed
RECURSIVE GcFrom(_, _, _, _, _)
GcFrom(parts, bad, idx, t, total_removed) ==
    IF idx = NumShards THEN [parts |-> parts, total_removed |-> total_removed]
    ELSE LET g == GcPartition(parts, bad, idx, t)
         IN  GcFrom([parts EXCEPT ![idx] = g.map], bad, idx + 1, t,
                    total_removed + g.removed)

\* let now = Instant::now(): one clock reading for the whole sweep
MemGc(parts, bad, t) == GcFrom(parts, bad, 0, t, 0)

(***************************************************************************)
(* persistence/aof.rs: AppendOnlyFile                                      *)
(***************************************************************************)
\* size_of::<EntryHeader>() for the packed struct:
\* crc u64, size u32, cmd_type u8, timestamp u64, key_size u16, value_size u32, ttl_ms u64
HeaderSize == 8 + 4 + 1 + 8 + 2 + 4 + 8
CmdSet == 1
CmdDelete == 2
\* u32::MAX as a usize, little-endian
U32MaxLE == <<255, 255, 255, 255, 0, 0, 0, 0>>

\* a > b for little-endian integers of one width
RECURSIVE GtLE(_, _)
GtLE(a, b) ==
    IF a = <<>> THEN FALSE
    ELSE IF GtLE(Tail(a), Tail(b)) THEN TRUE
    ELSE IF Tail(a) # Tail(b) THEN FALSE
    ELSE Head(a) > Head(b)

\* Duration::as_millis() as u64
as_millis(d) == d \div TicksPerMs

\* current_timestamp_ms()
current_timestamp_ms(t) == t \div TicksPerMs

\* ttl.map(|d| d.as_millis() as u64).unwrap_or(0)
TtlMs(ttl) == IF IsSome(ttl) THEN as_millis(Unwrap(ttl)) ELSE 0

\* the raw bytes of an EntryHeader
HeaderBytes(h) ==
    h.crc \o LE(h.size, 4) \o <<h.cmd_type>> \o LE(h.timestamp, 8)
    \o LE(h.key_size, 2) \o LE(h.value_size, 4) \o LE(h.ttl_ms, 8)

\* ptr::read_unaligned of an EntryHeader
ParseHeader(b) ==
    [crc |-> SubSeq(b, 1, 8),
     size |-> FromLE(SubSeq(b, 9, 12)),
     cmd_type |-> b[13],
     timestamp |-> FromLE(SubSeq(b, 14, 21)),
     key_size |-> FromLE(SubSeq(b, 22, 23)),
     value_size |-> FromLE(SubSeq(b, 24, 27)),
     ttl_ms |-> FromLE(SubSeq(b, 28, 35))]

\* the record append_set / append_delete build in entry_buf
EntryBuf(cmd, key, value, ttl_ms, t) ==
    LET total_size == HeaderSize + Len(key) + Len(value)
        header == [crc |-> LE(0, 8), size |-> total_size, cmd_type |-> cmd,
                   timestamp |-> current_timestamp_ms(t), key_size |-> Len(key),
                   value_size |-> Len(value), ttl_ms |-> ttl_ms]
        placeholder == HeaderBytes(header) \o key \o value
        crc == calculate_crc(SubSeq(placeholder, 9, Len(placeholder)))
    IN  HeaderBytes([header EXCEPT !.crc = crc]) \o key \o value

\* (variant) a write that lands at the start of the file
WriteAtStart(f, off, bytes) == bytes \o SubSeq(f, Len(bytes) + 1, Len(f))
\* a write of bytes at offset off of the file
WriteAt(f, off, bytes) ==
    SubSeq(f, 1, off) \o bytes \o SubSeq(f, off + Len(bytes) + 1, Len(f))

\* every byte reaches the file
IoOk == Big

\* (variant) a flush that reports its error only after every byte reached the file
WriteAllThenFail(a, f, entry_buf, io) ==
    [ok |-> io >= Len(a.wbuf \o entry_buf),
     aof |-> [a EXCEPT !.wbuf = <<>>, !.fpos = @ + Len(a.wbuf \o entry_buf)],
     file |-> WriteAt(f, a.fpos, a.wbuf \o entry_buf)]
\* self.writer.write_all(&entry_buf)?; self.writer.flush()?;  The BufWriter
\* takes the record into its buffer; flush writes the buffer at the file
\* offset.  io is the number of bytes the file accepts before it reports an
\* error: the bytes not written stay in the buffer.
WriteAndFlush(a, f, entry_buf, io) ==
    LET buf == a.wbuf \o entry_buf
    IN  IF io >= Len(buf)
        THEN [ok |-> TRUE,
              aof |-> [a EXCEPT !.wbuf = <<>>, !.fpos = @ + Len(buf)],
              file |-> WriteAt(f, a.fpos, buf)]
        ELSE [ok |-> FALSE,
              aof |-> [a EXCEPT !.wbuf = SubSeq(buf, io + 1, Len(buf)), !.fpos = @ + io],
              file |-> WriteAt(f, a.fpos, SubSeq(buf, 1, io))]

\* (variant) a cursor that stays where it was
NoAdvance(a, total_size) == a
\* let entry_pos = self.position; self.position += total_size as u64;
Advance(a, total_size) == [a EXCEPT !.position = @ + total_size]

\* what append_set / append_delete return once the write and the flush are over:
\* the `?` hands an I/O error to the caller before self.position moves
Appended(a, w, total_size) ==
    IF ~w.ok
    THEN [ok |-> FALSE, val |-> 0, err |-> "io", aof |-> w.aof, file |-> w.file]
    ELSE [ok |-> TRUE, val |-> a.position, err |-> "",
          aof |-> Advance(w.aof, total_size), file |-> w.file]

AppendEntry(a, f, cmd, key, value, ttl_ms, t, io) ==
    Appended(a, WriteAndFlush(a, f, EntryBuf(cmd, key, value, ttl_ms, t), io),
             HeaderSize + Len(key) + Len(value))

\* a + b for usize (64-bit) lengths held as 8 little-endian bytes, wrapping
RECURSIVE AddCarry(_, _, _, _)
AddCarry(a, b, i, carry) ==
    IF i > Len(a) THEN <<>>
    ELSE <<(a[i] + b[i] + carry) % 256>>
         \o AddCarry(a, b, i + 1, (a[i] + b[i] + carry) \div 256)
AddLE(a, b) == AddCarry(a, b, 1, 0)

\* u16::MAX as a usize, little-endian
U16MaxLE == LE(U16Max, 8)

\* append_set from its length checks to the header's size field, on the
\* lengths alone: key_len and value_len are key.len() and value.len() as
\* 8 little-endian bytes; size is `total_size as u32`
EntrySize(key_len, value_len) ==
    IF GtLE(key_len, U16MaxLE)
    THEN [ok |-> FALSE, err |-> "Key too large", total_size |-> <<>>, size |-> <<>>]
    ELSE IF GtLE(value_len, U32MaxLE)
    THEN [ok |-> FALSE, err |-> "Value too large", total_size |-> <<>>, size |-> <<>>]
    ELSE LET total_size == AddLE(AddLE(LE(HeaderSize, 8), key_len), value_len)
         IN  [ok |-> TRUE, err |-> "", total_size |-> total_size,
              size |-> SubSeq(total_size, 1, 4)]

\* AppendOnlyFile::append_set
append_set(a, f, key, value, ttl, t, io) ==
    IF Len(key) > U16Max
    THEN [ok |-> FALSE, val |-> 0, err |-> "Key too large", aof |-> a, file |-> f]
    ELSE IF GtLE(LE(Len(value), 8), U32MaxLE)
    THEN [ok |-> FALSE, val |-> 0, err |-> "Value too large", aof |-> a, file |-> f]
    ELSE AppendEntry(a, f, CmdSet, key, value, TtlMs(ttl), t, io)

\* AppendOnlyFile::append_delete
append_delete(a, f, key, t, io) ==
    IF Len(key) > U16Max
    THEN [ok |-> FALSE, val |-> 0, err |-> "Key too large", aof |-> a, file |-> f]
    ELSE AppendEntry(a, f, CmdDelete, key, <<>>, 0, t, io)

\* (variant) a comparison that accepts any checksum
CrcNeverMismatch(calculated_crc, header_crc) == FALSE
\* if calculated_crc != header.crc { break }
CrcMismatch(calculated_crc, header_crc) == calculated_crc # header_crc

\* (variant) a match whose arms take every tag
AnyCommand(cmd_type) == TRUE
\* what the match on header.cmd_type does to the count: both arms only count
\* ("In a real implementation, we'd apply this to the in-memory store")
KnownCommand(cmd_type) == cmd_type = CmdSet \/ cmd_type = CmdDelete

\* the while loop of replay_existing_entries: position is the loop's own
\* cursor (advanced by header.size), rd the number of bytes the reader has
\* consumed, count the records counted so far
RECURSIVE ReplayLoop(_, _, _, _, _)
ReplayLoop(f, self_position, position, rd, count) ==
    IF ~(position < self_position) THEN [ok |-> TRUE, count |-> count, err |-> ""]
    ELSE IF rd + HeaderSize > Len(f)
    THEN [ok |-> FALSE, count |-> count, err |-> "UnexpectedEof"]
    ELSE
    LET header_buf == SubSeq(f, rd + 1, rd + HeaderSize)
        header == ParseHeader(header_buf)
        key_size == header.key_size
        value_size == header.value_size
        body == rd + HeaderSize
    IN  IF header.size < HeaderSize
        THEN [ok |-> FALSE, count |-> count, err |-> "Invalid entry size"]
        ELSE IF body + key_size > Len(f)
        THEN [ok |-> FALSE, count |-> count, err |-> "UnexpectedEof"]
        ELSE IF value_size > 0 /\ body + key_size + value_size > Len(f)
        THEN [ok |-> FALSE, count |-> count, err |-> "UnexpectedEof"]
        ELSE
        LET key == SubSeq(f, body + 1, body + key_size)
            value == SubSeq(f, body + key_size + 1, body + key_size + value_size)
            data_for_crc == SubSeq(header_buf, 9, HeaderSize) \o key \o value
        IN  IF CrcMismatch(calculate_crc(data_for_crc), header.crc)
            THEN [ok |-> TRUE, count |-> count, err |-> ""]
            ELSE IF KnownCommand(header.cmd_type)
            THEN ReplayLoop(f, self_position, position + header.size,
                            body + key_size + value_size, count + 1)
            ELSE [ok |-> FALSE, count |-> count, err |-> "Unknown command type"]

\* (variant) a replay that leaves the file offset where it found it
ReplayWithoutSeek(a, f) ==
    IF a.position = 0 THEN [ok |-> TRUE, err |-> "", aof |-> a]
    ELSE LET r == ReplayLoop(f, a.position, 0, 0, 0)
         IN  IF r.ok
             THEN [ok |-> TRUE, err |-> "", aof |-> [a EXCEPT !.replay_count = r.count]]
             ELSE [ok |-> FALSE, err |-> r.err, aof |-> a]
\* AppendOnlyFile::replay_existing_entries
replay_existing_entries(a, f) ==
    IF a.position = 0 THEN [ok |-> TRUE, err |-> "", aof |-> a]
    ELSE LET r == ReplayLoop(f, a.position, 0, 0, 0)
         IN  IF r.ok
             THEN [ok |-> TRUE, err |-> "",
                   aof |-> [a EXCEPT !.replay_count = r.count, !.fpos = Len(f)]]
             ELSE [ok |-> FALSE, err |-> r.err, aof |-> a]

\* AppendOnlyFile::new
AofNew(f) ==
    replay_existing_entries(
        [position |-> Len(f), replay_count |-> 0, wbuf |-> <<>>, fpos |-> 0], f)

(***************************************************************************)
(* core/state.rs: GlobalState                                              *)
(***************************************************************************)
\* latencies a call may measure (start.elapsed())
MaxElapsed == 1
Elapsed == 0..MaxElapsed
\* State.set calls counted by the statistics
MaxWrites == 3

(***************************************************************************)
(* GarbageCollector (storage/gc.rs): the collector, its statistics and the *)
(* thread start_background_gc spawns                                       *)
(***************************************************************************)
MaxRuns == 2
MaxCycles == 2
GcDurations == {2}
\* the entries the collector's scenario stores expire at the next tick
GcTtls == {Some(0)}

\* enum ChaosType
ChaosTypes == {"ProcessKill", "MemoryPressure", "DiskFailure",
               "NetworkPartition", "ClockSkew"}
\* ChaosEngine::new: active is false, no thread. thread is the position of
\* the spawned chaos thread ("none", "spawned", "waiting", "done");
\* local_active is the AtomicBool the thread holds (none before a start);
\* chaos_type, duration and start are the thread's captures and its
\* Instant::now()
ChaosNew ==
    [active |-> FALSE, thread |-> "none", local_active |-> <<>>,
     chaos_type |-> "", duration |-> 0, start |-> 0]

\* GarbageCollector::new: should_stop 0 and GcStats::default(); thread is the
\* position of the spawned thread and t_* the GcStats it owns; calls,
\* returned, bg_sweeps, bg_removed, after_stop and late are history; at and
\* held are the partition a sweep in progress has reached and the write
\* guards it holds, sweep_now and total_removed its locals; duration is the
\* duration in ms the thread measured for its last cycle (history)
GcNew ==
    [cycles |-> 0, collected |-> 0, last_run |-> None, avg_duration_ms |-> 0,
     should_stop |-> 0,
     thread |-> "none", t_cycles |-> 0, t_collected |-> 0, t_avg |-> 0,
     calls |-> 0, returned |-> 0, bg_sweeps |-> 0, bg_removed |-> 0,
     after_stop |-> 0, late |-> FALSE,
     at |-> NumShards, held |-> {}, sweep_now |-> 0, total_removed |-> 0,
     duration |-> 0]

\* (variant) a run_now that leaves the cycle counter alone
RunNowUncounted(g, collected, start) ==
    [g EXCEPT !.collected = @ + collected, !.last_run = Some(start)]
\* run_now, "Update statistics"
RunNowStats(g, collected, start) ==
    [g EXCEPT !.cycles = @ + 1, !.collected = @ + collected,
              !.last_run = Some(start)]

\* impl Clone for GcStats: new atomics holding the values read
GcStatsClone(g) ==
    [g EXCEPT !.t_cycles = g.cycles, !.t_collected = g.collected,
              !.t_avg = g.avg_duration_ms]

\* the loop's "Update statistics" and its moving average, on the thread's
\* stats
LoopStats(g, collected, new_duration_ms) ==
    [g EXCEPT !.t_cycles = @ + 1, !.t_collected = @ + collected,
              !.t_avg = IF @ = 0 THEN new_duration_ms
                        ELSE (@ * 9 + new_duration_ms) \div 10]

\* (variant) a loop that never looks at the signal
LoopForever(g) == TRUE
\* while should_stop.load(Ordering::Relaxed) == 0
LoopContinues(g) == g.should_stop = 0

\* GarbageCollector::get_stats: the snapshot
GcStatsSnapshot(g) ==
    [cycles |-> g.cycles, collected |-> g.collected, last_run |-> g.last_run,
     avg_duration_ms |-> g.avg_duration_ms]

\* the history of the keys a sweep took out
SweptFrom(parts, after) ==
    [k \in DOMAIN written |->
        IF \E i \in Shards : k \in DOMAIN parts[i] /\ k \notin DOMAIN after[i]
        THEN [written[k] EXCEPT !.swept = TRUE]
        ELSE written[k]]

\* GlobalState::new: all counters zero
StatsNew ==
    [reads |-> 0, writes |-> 0, deletes |-> 0, write_latency_ns |-> 0,
     read_latency_ns |-> 0]

Never == [kind |-> "never", value |-> <<>>, ttl |-> <<>>, at |-> 0, swept |-> FALSE]
Idle ==
    [op |-> "idle", key |-> <<>>, value |-> <<>>, ttl |-> <<>>, exists |-> FALSE,
     prior |-> Never, stage |-> "none", seq |-> 0, at |-> 0]
AofClosed == [position |-> 0, replay_count |-> 0, wbuf |-> <<>>, fpos |-> 0]

NoRet ==
    [op |-> "none", key |-> <<>>, ok |-> TRUE, val |-> <<>>, err |-> "",
     prior |-> Never, tableOk |-> TRUE, logged |-> FALSE, aux |-> <<>>]
\* kind and pos: how and where the file was altered; n: the records the log
\* had been handed by then
NoDamage == [kind |-> "none", pos |-> 0, n |-> 0]

\* the history entry of a write the Table accepted
WroteSet(value, ttl, t) ==
    [kind |-> "set", value |-> value, ttl |-> ttl,
     at |-> IF IsSome(ttl) THEN t ELSE 0, swept |-> FALSE]
WroteDelete == [kind |-> "delete", value |-> <<>>, ttl |-> <<>>, at |-> 0, swept |-> FALSE]

\* the history entry of a record the log took whole
Rec(cmd, key, value, ttl_ms, off) ==
    [cmd |-> cmd, key |-> key, value |-> value, ttl_ms |-> ttl_ms, off |-> off,
     len |-> HeaderSize + Len(key) + Len(value)]

AllIdle == \A t \in Threads : pc[t] = Idle
\* the calls in progress that will still append a record
Pending == Cardinality({t \in Threads : pc[t] # Idle})
\* the Table writes of the calls so far, when no call has failed: those that
\* have appended their record and those still on their way to the log
TableWrites == Len(recs) + Pending

Init ==
    /\ now = 0
    /\ partitions = with_partitions(NumShards)
    /\ poisoned = {}
    /\ file = <<>>
    /\ aof = AofNew(<<>>).aof
    /\ up = "up"
    /\ aofPoisoned = FALSE
    /\ stats = StatsNew
    /\ pc = [t \in Threads |-> Idle]
    /\ ret = NoRet
    /\ written = [k \in Keys |-> Never]
    /\ recs = <<>>
    /\ damage = NoDamage
    /\ iofails = 0
    /\ gc = GcNew
    /\ chaos = ChaosNew

\* the clock advances
Tick ==
    /\ now < MaxClock
    /\ now' = now + 1
    /\ ret' = NoRet
    /\ UNCHANGED <<partitions, poisoned, file, aof, up, aofPoisoned, stats, pc,
                   written, recs, damage, iofails, gc, chaos>>

\* (variant) a get that takes an expired entry out of its shard
StateGetEvicting(t, k, el) ==
    /\ up = "up" /\ pc[t] = Idle
    /\ stats.reads < MaxReads
    /\ \E result \in {MemGet(partitions, poisoned, k, now)} :
           /\ stats' = [stats EXCEPT !.reads = @ + 1, !.read_latency_ns = @ + el]
           /\ ret' = [NoRet EXCEPT !.op = "get", !.key = k, !.val = result,
                                   !.prior = written[k]]
           /\ partitions' = IF result = None
                             THEN [partitions EXCEPT ![get_partition_for_key(k)] =
                                       Remove(@, k)]
                             ELSE partitions
    /\ UNCHANGED <<now, poisoned, file, aof, up, aofPoisoned, pc,
                   written, recs, damage, iofails, gc, chaos>>
\* GlobalState::get
StateGet(t, k, el) ==
    /\ up = "up" /\ pc[t] = Idle
    /\ stats.reads < MaxReads
    /\ LET result == MemGet(partitions, poisoned, k, now)
       IN  /\ stats' = [stats EXCEPT !.reads = @ + 1, !.read_latency_ns = @ + el]
           /\ ret' = [NoRet EXCEPT !.op = "get", !.key = k, !.val = result,
                                   !.prior = written[k]]
    /\ UNCHANGED <<now, partitions, poisoned, file, aof, up, aofPoisoned, pc,
                   written, recs, damage, iofails, gc, chaos>>

\* (variant) a set that goes on to the log whatever the Table write returned
StateSetTableThenLog(t, k, v, ttl, el) ==
    /\ up = "up" /\ pc[t] = Idle
    /\ stats.writes < MaxWrites
    /\ Len(recs) + Pending < MaxRecs
    /\ LET m == MemSet(partitions, poisoned, k, v, ttl, now)
       IN  /\ partitions' = m.parts
           /\ pc' = [pc EXCEPT ![t] = [Idle EXCEPT !.op = "set", !.key = k,
                                                   !.value = v, !.ttl = ttl,
                                                   !.prior = written[k],
                                                   !.seq = TableWrites + 1,
                                                   !.stage = "table"]]
           /\ written' = IF m.ok THEN [written EXCEPT ![k] = WroteSet(v, ttl, now)]
                          ELSE written
           /\ ret' = IF m.ok THEN NoRet
                      ELSE [NoRet EXCEPT !.op = "set", !.key = k, !.ok = FALSE,
                                         !.err = "Memory write failed",
                                         !.tableOk = FALSE]
           /\ UNCHANGED stats
    /\ UNCHANGED <<now, poisoned, file, aof, up, aofPoisoned, recs, damage, iofails, gc,
                   chaos>>
\* GlobalState::set up to the end of self.mem_table.set(key, value.clone(), ttl):
\* a Table failure makes the match yield Err, and the metrics are updated
StateSetTable(t, k, v, ttl, el) ==
    /\ up = "up" /\ pc[t] = Idle
    /\ stats.writes < MaxWrites
    /\ Len(recs) + Pending < MaxRecs
    /\ LET m == MemSet(partitions, poisoned, k, v, ttl, now)
       IN  IF m.ok
           THEN /\ partitions' = m.parts
                /\ pc' = [pc EXCEPT ![t] = [Idle EXCEPT !.op = "set", !.key = k,
                                                        !.value = v, !.ttl = ttl,
                                                        !.prior = written[k],
                                                        !.seq = TableWrites + 1,
                                                   !.stage = "table"]]
                /\ written' = [written EXCEPT ![k] = WroteSet(v, ttl, now)]
                /\ ret' = NoRet
                /\ UNCHANGED stats
           ELSE /\ stats' = [stats EXCEPT !.writes = @ + 1, !.write_latency_ns = @ + el]
                /\ ret' = [NoRet EXCEPT !.op = "set", !.key = k, !.ok = FALSE,
                                        !.err = "Memory write failed",
                                        !.tableOk = FALSE]
                /\ UNCHANGED <<partitions, pc, written>>
    /\ UNCHANGED <<now, poisoned, file, aof, up, aofPoisoned, recs, damage, iofails, gc,
                   chaos>>

\* GlobalState::set from self.aof.lock() on: the append, then the metrics;
\* both failure branches return before the metrics
StateSetLog(t, io, el) ==
    /\ up = "up" /\ pc[t].op = "set"
    /\ LET k == pc[t].key
           base == [NoRet EXCEPT !.op = "set", !.key = k, !.prior = pc[t].prior]
       IN  IF aofPoisoned
           THEN /\ ret' = [base EXCEPT !.ok = FALSE, !.err = "Failed to acquire AOF lock"]
                /\ UNCHANGED <<file, aof, stats, recs, iofails, gc>>
           ELSE \E r \in {append_set(aof, file, k, pc[t].value, pc[t].ttl, now, io)} :
                    /\ file' = r.file
                    /\ aof' = r.aof
                    /\ iofails' = IF r.err = "io" THEN iofails + 1 ELSE iofails
                    /\ IF r.ok
                       THEN /\ recs' = Append(recs, Rec(CmdSet, k, pc[t].value,
                                                        TtlMs(pc[t].ttl), r.val))
                            /\ stats' = [stats EXCEPT !.writes = @ + 1,
                                                      !.write_latency_ns = @ + el]
                            /\ ret' = [base EXCEPT !.logged = TRUE]
                       ELSE /\ ret' = [base EXCEPT !.ok = FALSE, !.err = "AOF write failed"]
                            /\ UNCHANGED <<stats, recs>>
    /\ pc' = [pc EXCEPT ![t] = Idle]
    /\ UNCHANGED <<now, partitions, poisoned, up, aofPoisoned, written, damage, gc, chaos>>

\* GlobalState::delete up to the end of self.mem_table.delete(key):
\* a Table failure returns at once
StateDeleteTable(t, k) ==
    /\ up = "up" /\ pc[t] = Idle
    /\ Len(recs) + Pending < MaxRecs
    /\ LET m == MemDelete(partitions, poisoned, k)
       IN  IF m.ok
           THEN /\ partitions' = m.parts
                /\ pc' = [pc EXCEPT ![t] = [Idle EXCEPT !.op = "delete", !.key = k,
                                                        !.exists = m.val,
                                                        !.at = now,
                                                        !.prior = written[k],
                                                        !.seq = TableWrites + 1,
                                                   !.stage = "table"]]
                /\ written' = [written EXCEPT ![k] = WroteDelete]
                /\ ret' = NoRet
           ELSE /\ ret' = [NoRet EXCEPT !.op = "delete", !.key = k, !.ok = FALSE,
                                        !.err = "Memory delete failed",
                                        !.tableOk = FALSE]
                /\ UNCHANGED <<partitions, pc, written>>
    /\ UNCHANGED <<now, poisoned, file, aof, up, aofPoisoned, stats, recs, damage, iofails, gc,
                   chaos>>

\* GlobalState::delete from self.aof.lock() on
StateDeleteLog(t, io) ==
    /\ up = "up" /\ pc[t].op = "delete"
    /\ LET k == pc[t].key
           base == [NoRet EXCEPT !.op = "delete", !.key = k, !.prior = pc[t].prior]
       IN  IF aofPoisoned
           THEN /\ ret' = [base EXCEPT !.ok = FALSE, !.err = "Failed to acquire AOF lock"]
                /\ UNCHANGED <<file, aof, stats, recs, iofails, gc>>
           ELSE \E r \in {append_delete(aof, file, k, now, io)} :
                    /\ file' = r.file
                    /\ aof' = r.aof
                    /\ iofails' = IF r.err = "io" THEN iofails + 1 ELSE iofails
                    /\ IF r.ok
                       THEN /\ recs' = Append(recs, Rec(CmdDelete, k, <<>>, 0, r.val))
                            /\ stats' = [stats EXCEPT !.deletes = @ + 1]
                            /\ ret' = [base EXCEPT !.val = pc[t].exists, !.logged = TRUE]
                       ELSE /\ ret' = [base EXCEPT !.ok = FALSE, !.err = "AOF delete failed"]
                            /\ UNCHANGED <<stats, recs>>
    /\ pc' = [pc EXCEPT ![t] = Idle]
    /\ UNCHANGED <<now, partitions, poisoned, up, aofPoisoned, written, damage, gc, chaos>>

(***************************************************************************)
(* The sweep: MemTable::gc called with no other call in between            *)
(***************************************************************************)
Sweep ==
    /\ up = "up"
    /\ LET g == MemGc(partitions, poisoned, now)
           gone == {k \in DOMAIN written : \E i \in Shards :
                       k \in DOMAIN partitions[i] /\ k \notin DOMAIN g.parts[i]}
       IN  /\ partitions' = g.parts
           /\ written' = [k \in DOMAIN written |->
                            IF k \in gone THEN [written[k] EXCEPT !.swept = TRUE]
                            ELSE written[k]]
           /\ ret' = [NoRet EXCEPT !.op = "gc", !.val = g.total_removed,
                                   !.aux = [pre |-> partitions, now |-> now]]
    /\ UNCHANGED <<now, poisoned, file, aof, up, aofPoisoned, stats, pc, recs, damage,
                   iofails, gc, chaos>>

(***************************************************************************)
(* The process stops and starts again (main.rs)                            *)
(***************************************************************************)
\* the process ends with no call in progress: its memory is gone, the file stays
Stop ==
    /\ up = "up" /\ AllIdle
    /\ up' = "down"
    /\ partitions' = with_partitions(NumShards)
    /\ poisoned' = {}
    /\ aof' = AofClosed
    /\ aofPoisoned' = FALSE
    /\ stats' = StatsNew
    /\ written' = [k \in DOMAIN written |-> Never]
    /\ ret' = NoRet
    /\ UNCHANGED <<now, file, pc, recs, damage, iofails, gc, chaos>>

\* main: MemTable::new(), AppendOnlyFile::new(path)?, GlobalState::new(..).
\* The replay is handed no Table: the Table the State gets is the empty one.
Start ==
    /\ up = "down"
    /\ \E r \in {AofNew(file)} :
           /\ up' = IF r.ok THEN "up" ELSE "failed"
           /\ aof' = IF r.ok THEN r.aof ELSE AofClosed
           /\ ret' = [NoRet EXCEPT !.op = "open", !.ok = r.ok, !.err = r.err,
                                   !.val = r.aof.replay_count]
    /\ partitions' = with_partitions(NumShards)
    /\ stats' = StatsNew
    /\ UNCHANGED <<now, poisoned, file, aofPoisoned, pc, written, recs, damage,
                   iofails, gc, chaos>>

(***************************************************************************)
(* The file is altered while the process is down                           *)
(***************************************************************************)
\* bit patterns a flipped byte is xor-ed with
FlipMasks == {1, 32}

\* one byte of the file (0-based offset i) is changed
FlipByte(i, m) ==
    /\ up = "down" /\ damage = NoDamage
    /\ i \in 0..(Len(file) - 1)
    /\ file' = [file EXCEPT ![i + 1] = XorByte(@, m)]
    /\ damage' = [kind |-> "flip", pos |-> i, n |-> Len(recs)]
    /\ ret' = NoRet
    /\ UNCHANGED <<now, partitions, poisoned, aof, up, aofPoisoned, stats, pc,
                   written, recs, iofails, gc, chaos>>

\* the last record was only partly written: the file ends after n bytes,
\* somewhere inside the last record
Truncate(n) ==
    /\ up = "down" /\ damage = NoDamage
    /\ recs # <<>>
    /\ recs[Len(recs)].off < n /\ n < Len(file)
    /\ file' = SubSeq(file, 1, n)
    /\ damage' = [kind |-> "cut", pos |-> n, n |-> Len(recs)]
    /\ ret' = NoRet
    /\ UNCHANGED <<now, partitions, poisoned, aof, up, aofPoisoned, stats, pc,
                   written, recs, iofails, gc, chaos>>

\* command tags that are neither Set nor Delete
AlienTags == {0, 3}

\* a record with a sound checksum and a tag this program does not know is
\* added to the file while the process is down (written by another program)
AlienRecord(k, cmd) ==
    /\ up = "down" /\ damage = NoDamage
    /\ file' = file \o EntryBuf(cmd, k, <<>>, 0, now)
    /\ damage' = [kind |-> "tag", pos |-> Len(file), n |-> Len(recs)]
    /\ ret' = NoRet
    /\ UNCHANGED <<now, partitions, poisoned, aof, up, aofPoisoned, stats, pc,
                   written, recs, iofails, gc, chaos>>

(***************************************************************************)
(* Direct calls on the AppendOnlyFile                                      *)
(***************************************************************************)
LogAppendSet(k, v, ttl, io) ==
    /\ up = "up" /\ Len(recs) < MaxRecs
    /\ \E r \in {append_set(aof, file, k, v, ttl, now, io)} :
           /\ file' = r.file
           /\ aof' = r.aof
           /\ recs' = IF r.ok THEN Append(recs, Rec(CmdSet, k, v, TtlMs(ttl), r.val))
                      ELSE recs
           /\ iofails' = IF r.err = "io" THEN iofails + 1 ELSE iofails
           /\ ret' = [NoRet EXCEPT !.op = "append_set", !.key = k, !.ok = r.ok,
                                   !.val = r.val, !.err = r.err, !.logged = r.ok,
                                   !.aux = [position |-> aof.position, file |-> file]]
    /\ UNCHANGED <<now, partitions, poisoned, up, aofPoisoned, stats, pc, written,
                   damage, gc, chaos>>

LogAppendDelete(k, io) ==
    /\ up = "up" /\ Len(recs) < MaxRecs
    /\ \E r \in {append_delete(aof, file, k, now, io)} :
           /\ file' = r.file
           /\ aof' = r.aof
           /\ recs' = IF r.ok THEN Append(recs, Rec(CmdDelete, k, <<>>, 0, r.val))
                      ELSE recs
           /\ iofails' = IF r.err = "io" THEN iofails + 1 ELSE iofails
           /\ ret' = [NoRet EXCEPT !.op = "append_delete", !.key = k, !.ok = r.ok,
                                   !.val = r.val, !.err = r.err, !.logged = r.ok,
                                   !.aux = [position |-> aof.position, file |-> file]]
    /\ UNCHANGED <<now, partitions, poisoned, up, aofPoisoned, stats, pc, written,
                   damage, gc, chaos>>

(***************************************************************************)
(* Faults: a lock is poisoned by a panic of its holder, a write fails      *)
(***************************************************************************)
\* I/O errors injected into one run
MaxIoFail == 1
\* what a failing flush has written before the error: nothing, or a header
IoFaults == IF iofails < MaxIoFail THEN {0, HeaderSize} ELSE {}

\* shards whose lock may be poisoned in one run
MaxPoisoned == 1

PoisonShard(i) ==
    /\ up = "up" /\ i \notin poisoned
    /\ Cardinality(poisoned) < MaxPoisoned
    /\ poisoned' = poisoned \cup {i}
    /\ ret' = NoRet
    /\ UNCHANGED <<now, partitions, file, aof, up, aofPoisoned, stats, pc,
                   written, recs, damage, iofails, gc, chaos>>

PoisonAof ==
    /\ up = "up" /\ ~aofPoisoned
    /\ aofPoisoned' = TRUE
    /\ ret' = NoRet
    /\ UNCHANGED <<now, partitions, poisoned, file, aof, up, stats, pc,
                   written, recs, damage, iofails, gc, chaos>>

(***************************************************************************)
(* Two callers: the log half of set / delete, step by step                 *)
(***************************************************************************)
\* the stages of a call that holds the MutexGuard of self.aof
Locked == {"locked", "buffered"}

\* (variant) a lock that is handed out whoever holds it
MutexIgnored(t) == TRUE
\* (variant) a lock that is handed out in the order of the Table writes
MutexInTableOrder(t) ==
    \A u \in Threads \ {t} :
        pc[u].stage \notin Locked /\ (pc[u] # Idle => pc[u].seq > pc[t].seq)
\* Mutex::lock returns when no other thread holds the guard
MutexFree(t) == \A u \in Threads \ {t} : pc[u].stage \notin Locked

\* the record the call of thread t appends
EntryOf(t) ==
    IF pc[t].op = "set"
    THEN EntryBuf(CmdSet, pc[t].key, pc[t].value, TtlMs(pc[t].ttl), now)
    ELSE EntryBuf(CmdDelete, pc[t].key, <<>>, 0, now)

\* self.aof.lock(): the call has written the Table and takes the guard
AofLock(t) ==
    /\ up = "up" /\ ~aofPoisoned
    /\ pc[t].op \in {"set", "delete"} /\ pc[t].stage = "table"
    /\ MutexFree(t)
    /\ pc' = [pc EXCEPT ![t].stage = "locked"]
    /\ ret' = NoRet
    /\ UNCHANGED <<now, partitions, poisoned, file, aof, up, aofPoisoned, stats,
                   written, recs, damage, iofails, gc, chaos>>

\* append_set / append_delete up to self.writer.write_all(&entry_buf): the
\* record goes into the BufWriter
AofWriteAll(t) ==
    /\ pc[t].stage = "locked"
    /\ Len(pc[t].key) <= U16Max
    /\ aof' = [aof EXCEPT !.wbuf = @ \o EntryOf(t)]
    /\ pc' = [pc EXCEPT ![t].stage = "buffered"]
    /\ ret' = NoRet
    /\ UNCHANGED <<now, partitions, poisoned, file, up, aofPoisoned, stats,
                   written, recs, damage, iofails, gc, chaos>>

\* self.writer.flush(): one write of the file, which takes the first n
\* bytes of the buffer
AofFlushWrite(t, n) ==
    /\ pc[t].stage = "buffered"
    /\ n \in 1..Len(aof.wbuf)
    /\ file' = WriteAt(file, aof.fpos, SubSeq(aof.wbuf, 1, n))
    /\ aof' = [aof EXCEPT !.wbuf = SubSeq(@, n + 1, Len(@)), !.fpos = @ + n]
    /\ ret' = NoRet
    /\ UNCHANGED <<now, partitions, poisoned, up, aofPoisoned, stats, pc,
                   written, recs, damage, iofails, gc, chaos>>

\* the flush is over: entry_pos, self.position += total_size, Ok(entry_pos);
\* the guard is dropped, set / delete update the metrics and return
AofReturn(t, el) ==
    /\ pc[t].stage = "buffered"
    /\ aof.wbuf = <<>>
    /\ aof' = Advance(aof, HeaderSize + Len(pc[t].key) + Len(pc[t].value))
    /\ recs' = Append(recs,
                      IF pc[t].op = "set"
                      THEN Rec(CmdSet, pc[t].key, pc[t].value, TtlMs(pc[t].ttl),
                               aof.position)
                      ELSE Rec(CmdDelete, pc[t].key, <<>>, 0, aof.position))
    /\ stats' = IF pc[t].op = "set"
                 THEN [stats EXCEPT !.writes = @ + 1, !.write_latency_ns = @ + el]
                 ELSE [stats EXCEPT !.deletes = @ + 1]
    /\ ret' = [NoRet EXCEPT !.op = pc[t].op, !.key = pc[t].key,
                            !.val = IF pc[t].op = "delete" THEN pc[t].exists ELSE <<>>,
                            !.prior = pc[t].prior, !.logged = TRUE,
                            !.aux = [seq |-> pc[t].seq, by |-> t]]
    /\ pc' = [pc EXCEPT ![t] = Idle]
    /\ UNCHANGED <<now, partitions, poisoned, file, up, aofPoisoned, written,
                   damage, iofails, gc, chaos>>

(***************************************************************************)
(* Specifications                                                          *)
(***************************************************************************)
\* one caller, the sweep and the clock; no faults
Caller == CHOOSE t \in Threads : TRUE

Next ==
    \/ Tick
    \/ \E k \in Keys, el \in {MaxElapsed} : StateGet(Caller, k, el)
    \/ \E k \in Keys, v \in Values, ttl \in Ttls, el \in {MaxElapsed} :
          StateSetTable(Caller, k, v, ttl, el)
    \/ \E el \in {MaxElapsed} : StateSetLog(Caller, IoOk, el)
    \/ \E k \in Keys : StateDeleteTable(Caller, k)
    \/ StateDeleteLog(Caller, IoOk)
    \/ Sweep

Spec == Init /\ [][Next]_vars

\* the log alone: direct appends, then the file is altered while closed
NextLog ==
    \/ \E k \in LogKeys, v \in LogValues, ttl \in LogTtls : LogAppendSet(k, v, ttl, IoOk)
    \/ \E k \in LogKeys : LogAppendDelete(k, IoOk)
    \/ Stop
    \/ \E i \in 0..(Len(file) - 1), m \in FlipMasks : FlipByte(i, m)
    \/ \E n \in 0..Len(file) : Truncate(n)
    \/ Start

SpecLog == Init /\ [][NextLog]_vars

\* the log alone; while it is closed one byte is flipped or a record with an
\* unknown tag is added
NextTag ==
    \/ \E k \in LogKeys, v \in LogValues : LogAppendSet(k, v, None, IoOk)
    \/ \E k \in LogKeys : LogAppendDelete(k, IoOk)
    \/ Stop
    \/ \E i \in 0..(Len(file) - 1) : FlipByte(i, 1)
    \/ \E k \in LogKeys, cmd \in AlienTags : AlienRecord(k, cmd)
    \/ Start

SpecTag == Init /\ [][NextTag]_vars

\* the log alone, with failing writes: the calls of scenario B among them
FiveSeconds == 5000 * TicksPerMs
ScenarioTtls == {None, Some(FiveSeconds)}

NextAppend ==
    \/ \E k \in LogKeys, v \in Values, ttl \in ScenarioTtls, io \in {IoOk} \cup IoFaults :
          LogAppendSet(k, v, ttl, io)
    \/ \E k \in LogKeys, io \in {IoOk} \cup IoFaults : LogAppendDelete(k, io)
    \/ Stop
    \/ Start

SpecAppend == Init /\ [][NextAppend]_vars

\* two callers; a record reaches the file in one write or in two
NextTwo ==
    \/ \E t \in Threads, k \in Keys, v \in LogValues :
          StateSetTable(t, k, v, None, MaxElapsed)
    \/ \E t \in Threads, k \in Keys : StateDeleteTable(t, k)
    \/ \E t \in Threads : AofLock(t)
    \/ \E t \in Threads : AofWriteAll(t)
    \/ \E t \in Threads, n \in {HeaderSize, Len(aof.wbuf)} : AofFlushWrite(t, n)
    \/ \E t \in Threads : AofReturn(t, MaxElapsed)

SpecTwo == Init /\ [][NextTwo]_vars

\* append_set's size arithmetic alone, on lengths up to 2^32: the lengths
\* are drawn at the start, the call computes the header's size field
KeyLens ==
    {LE(0, 8), LE(1, 8), LE(2, 8), LE(U16Max - 1, 8), LE(U16Max, 8), LE(U16Max + 1, 8)}
ValueLens ==
    {LE(0, 8), LE(1, 8), LE(2, 8), LE(U16Max, 8),
     <<221, 255, 254, 255, 0, 0, 0, 0>>,      \* 2^32 - 35 - 65535 - 1
     <<222, 255, 254, 255, 0, 0, 0, 0>>,      \* 2^32 - 35 - 65535
     <<220, 255, 255, 255, 0, 0, 0, 0>>,      \* 2^32 - 35 - 1
     <<221, 255, 255, 255, 0, 0, 0, 0>>,      \* 2^32 - 35
     U32MaxLE,                                \* 2^32 - 1
     <<0, 0, 0, 0, 1, 0, 0, 0>>}              \* 2^32

InitSize ==
    /\ now = 0
    /\ partitions = with_partitions(NumShards)
    /\ poisoned = {}
    /\ file = <<>>
    /\ aof = AofNew(<<>>).aof
    /\ up = "up"
    /\ aofPoisoned = FALSE
    /\ stats = StatsNew
    /\ pc = [t \in Threads |-> Idle]
    /\ \E kl \in KeyLens, vl \in ValueLens :
          ret = [NoRet EXCEPT !.op = "lengths",
                              !.aux = [key_len |-> kl, value_len |-> vl]]
    /\ written = [k \in Keys |-> Never]
    /\ recs = <<>>
    /\ damage = NoDamage
    /\ iofails = 0
    /\ gc = GcNew
    /\ chaos = ChaosNew

HeaderSizeField ==
    /\ ret.op = "lengths"
    /\ \E r \in {EntrySize(ret.aux.key_len, ret.aux.value_len)} :
          ret' = [NoRet EXCEPT !.op = "header", !.ok = r.ok, !.err = r.err,
                               !.aux = [key_len |-> ret.aux.key_len,
                                        value_len |-> ret.aux.value_len,
                                        total_size |-> r.total_size,
                                        size |-> r.size]]
    /\ UNCHANGED <<now, partitions, poisoned, file, aof, up, aofPoisoned, stats, pc,
                   written, recs, damage, iofails, gc, chaos>>

SpecSize == InitSize /\ [][HeaderSizeField]_vars

\* one caller, with poisoned locks and failing writes
NextFault ==
    \/ \E k \in Keys : StateGet(Caller, k, MaxElapsed)
    \/ \E k \in Keys, v \in LogValues : StateSetTable(Caller, k, v, None, MaxElapsed)
    \/ \E io \in {IoOk} \cup IoFaults : StateSetLog(Caller, io, MaxElapsed)
    \/ \E k \in Keys : StateDeleteTable(Caller, k)
    \/ \E io \in {IoOk} \cup IoFaults : StateDeleteLog(Caller, io)
    \/ \E i \in Shards : PoisonShard(i)
    \/ PoisonAof

SpecFault == Init /\ [][NextFault]_vars

(***************************************************************************)
(* One caller running alone: each call of GlobalState from entry to return *)
(***************************************************************************)
\* what the call found before it ran: whether the Table held the key, and
\* the file
Before(k) == [held |-> k \in DOMAIN partitions[get_partition_for_key(k)], file |-> file]

\* the append a call reaches only when the Table took the write and the AOF
\* lock was granted
NotAppended == [ok |-> FALSE, val |-> 0, err |-> "", aof |-> aof, file |-> file]

\* GlobalState::set, entry to return
StateSet(t, k, v, ttl, io, el) ==
    /\ up = "up" /\ AllIdle
    /\ stats.writes < MaxWrites
    /\ Len(recs) < MaxRecs
    /\ \E m \in {MemSet(partitions, poisoned, k, v, ttl, now)} :
       \E r \in {IF m.ok /\ ~aofPoisoned
                 THEN append_set(aof, file, k, v, ttl, now, io)
                 ELSE NotAppended} :
           /\ partitions' = m.parts
           /\ written' = IF m.ok /\ k \in DOMAIN written
                          THEN [written EXCEPT ![k] = WroteSet(v, ttl, now)]
                          ELSE written
           /\ file' = r.file
           /\ aof' = r.aof
           /\ iofails' = IF r.err = "io" THEN iofails + 1 ELSE iofails
           /\ recs' = IF r.ok THEN Append(recs, Rec(CmdSet, k, v, TtlMs(ttl), r.val))
                       ELSE recs
           /\ stats' = IF m.ok /\ ~r.ok THEN stats
                        ELSE [stats EXCEPT !.writes = @ + 1, !.write_latency_ns = @ + el]
           /\ ret' = [NoRet EXCEPT !.op = "set", !.key = k, !.ok = r.ok,
                                   !.err = IF ~m.ok THEN "Memory write failed"
                                           ELSE IF aofPoisoned
                                           THEN "Failed to acquire AOF lock"
                                           ELSE IF ~r.ok THEN "AOF write failed" ELSE "",
                                   !.tableOk = m.ok, !.logged = r.ok,
                                   !.aux = Before(k)]
    /\ UNCHANGED <<now, poisoned, up, aofPoisoned, pc, damage, gc, chaos>>

\* GlobalState::delete, entry to return
StateDelete(t, k, io) ==
    /\ up = "up" /\ AllIdle
    /\ Len(recs) < MaxRecs
    /\ \E m \in {MemDelete(partitions, poisoned, k)} :
       \E r \in {IF m.ok /\ ~aofPoisoned
                 THEN append_delete(aof, file, k, now, io)
                 ELSE NotAppended} :
           /\ partitions' = m.parts
           /\ written' = IF m.ok /\ k \in DOMAIN written
                          THEN [written EXCEPT ![k] = WroteDelete]
                          ELSE written
           /\ file' = r.file
           /\ aof' = r.aof
           /\ iofails' = IF r.err = "io" THEN iofails + 1 ELSE iofails
           /\ recs' = IF r.ok THEN Append(recs, Rec(CmdDelete, k, <<>>, 0, r.val))
                       ELSE recs
           /\ stats' = IF r.ok THEN [stats EXCEPT !.deletes = @ + 1] ELSE stats
           /\ ret' = [NoRet EXCEPT !.op = "delete", !.key = k, !.ok = r.ok,
                                   !.val = IF r.ok THEN m.val ELSE <<>>,
                                   !.err = IF ~m.ok THEN "Memory delete failed"
                                           ELSE IF aofPoisoned
                                           THEN "Failed to acquire AOF lock"
                                           ELSE IF ~r.ok THEN "AOF delete failed" ELSE "",
                                   !.tableOk = m.ok, !.logged = r.ok,
                                   !.aux = Before(k)]
    /\ UNCHANGED <<now, poisoned, up, aofPoisoned, pc, damage, gc, chaos>>

\* (variant) averages that are the cumulative latencies themselves
GetStatsUndivided(st) ==
    [reads |-> st.reads, writes |-> st.writes, deletes |-> st.deletes,
     avg_read_latency |-> st.read_latency_ns,
     avg_write_latency |-> st.write_latency_ns]
\* GlobalState::get_stats, without the uptime
get_stats(st) ==
    [reads |-> st.reads, writes |-> st.writes, deletes |-> st.deletes,
     avg_read_latency |-> IF st.reads > 0 THEN st.read_latency_ns \div st.reads ELSE 0,
     avg_write_latency |-> IF st.writes > 0 THEN st.write_latency_ns \div st.writes
                            ELSE 0]

StateGetStats ==
    /\ up = "up" /\ ret.op # "stats"
    /\ ret' = [NoRet EXCEPT !.op = "stats", !.val = get_stats(stats)]
    /\ UNCHANGED <<now, partitions, poisoned, file, aof, up, aofPoisoned, stats, pc,
                   written, recs, damage, iofails, gc, chaos>>

\* one caller running alone, failing writes, and the statistics read at any time
NextStats ==
    \/ \E k \in Keys, el \in Elapsed : StateGet(Caller, k, el)
    \/ \E k \in Keys, v \in LogValues, io \in {IoOk} \cup IoFaults, el \in Elapsed :
          StateSet(Caller, k, v, None, io, el)
    \/ \E k \in Keys, io \in {IoOk} \cup IoFaults : StateDelete(Caller, k, io)
    \/ StateGetStats

SpecStats == Init /\ [][NextStats]_vars

\* the caller's keys include one longer than 65,535 bytes
NextBig ==
    \/ \E k \in Keys : StateGet(Caller, k, MaxElapsed)
    \/ \E k \in BigKeys, v \in LogValues, el \in Elapsed :
          StateSet(Caller, k, v, None, IoOk, el)
    \/ \E k \in BigKeys : StateDelete(Caller, k, IoOk)

SpecBig == Init /\ [][NextBig]_vars

(***************************************************************************)
(* The collector's calls and the steps of its background thread            *)
(***************************************************************************)
\* GarbageCollector::run_now
GcRunNow ==
    /\ up = "up" /\ AllIdle
    /\ gc.calls < MaxRuns
    /\ \E g \in {MemGc(partitions, poisoned, now)} :
           /\ partitions' = g.parts
           /\ written' = SweptFrom(partitions, g.parts)
           /\ gc' = [RunNowStats(gc, g.total_removed, now) EXCEPT
                        !.calls = @ + 1, !.returned = @ + g.total_removed]
           /\ ret' = [NoRet EXCEPT !.op = "run_now", !.val = g.total_removed]
    /\ UNCHANGED <<now, poisoned, file, aof, up, aofPoisoned, stats, pc, recs,
                   damage, iofails, chaos>>

\* GarbageCollector::start_background_gc: the clones and thread::spawn
GcStart ==
    /\ up = "up" /\ gc.thread = "none"
    /\ gc' = [GcStatsClone(gc) EXCEPT !.thread = "check",
                                      !.late = gc.should_stop # 0]
    /\ ret' = NoRet
    /\ UNCHANGED <<now, partitions, poisoned, file, aof, up, aofPoisoned, stats,
                   pc, written, recs, damage, iofails, chaos>>

\* the thread evaluates the condition of its while loop
GcCheck ==
    /\ gc.thread = "check"
    /\ LoopContinues(gc) => gc.bg_sweeps < MaxCycles
    /\ gc' = [gc EXCEPT !.thread = IF LoopContinues(gc) THEN "sleep"
                                   ELSE "stopped"]
    /\ ret' = NoRet
    /\ UNCHANGED <<now, partitions, poisoned, file, aof, up, aofPoisoned, stats,
                   pc, written, recs, damage, iofails, chaos>>

\* the body of the loop: thread::sleep(interval), mem_table.gc() and the
\* statistics
GcCycle(duration) ==
    /\ gc.thread = "sleep" /\ AllIdle
    /\ \E g \in {MemGc(partitions, poisoned, now)} :
           /\ partitions' = g.parts
           /\ written' = SweptFrom(partitions, g.parts)
           /\ gc' = [LoopStats(gc, g.total_removed, duration) EXCEPT
                        !.thread = "check", !.duration = duration,
                        !.bg_sweeps = @ + 1, !.bg_removed = @ + g.total_removed,
                        !.after_stop = IF gc.should_stop # 0 THEN @ + 1 ELSE @]
    /\ ret' = NoRet
    /\ UNCHANGED <<now, poisoned, file, aof, up, aofPoisoned, stats, pc, recs,
                   damage, iofails, chaos>>

\* GarbageCollector::stop, called by the owner or by drop
GcStop ==
    /\ gc.should_stop = 0
    /\ gc' = [gc EXCEPT !.should_stop = 1]
    /\ ret' = NoRet
    /\ UNCHANGED <<now, partitions, poisoned, file, aof, up, aofPoisoned, stats,
                   pc, written, recs, damage, iofails, chaos>>

\* GarbageCollector::get_stats
GcGetStats ==
    /\ up = "up" /\ ret.op # "gc_stats"
    /\ ret' = [NoRet EXCEPT !.op = "gc_stats", !.val = GcStatsSnapshot(gc)]
    /\ UNCHANGED <<now, partitions, poisoned, file, aof, up, aofPoisoned, stats,
                   pc, written, recs, damage, iofails, gc, chaos>>

\* a Table with expiring entries, the collector's owner and the thread
NextGc ==
    \/ Tick
    \/ \E k \in Keys, v \in LogValues, ttl \in GcTtls :
          StateSet(Caller, k, v, ttl, IoOk, MaxElapsed)
    \/ GcRunNow
    \/ GcStart
    \/ GcCheck
    \/ \E duration \in GcDurations : GcCycle(duration)
    \/ GcGetStats

SpecGc == Init /\ [][NextGc]_vars

\* the thread and the stop signal
NextLoop ==
    \/ Tick
    \/ \E k \in Keys, v \in LogValues, ttl \in GcTtls :
          StateSet(Caller, k, v, ttl, IoOk, MaxElapsed)
    \/ GcStart
    \/ GcCheck
    \/ \E duration \in GcDurations : GcCycle(duration)
    \/ GcStop

\* the thread is scheduled: a step of the loop that can be taken is taken
SpecLoop ==
    /\ Init /\ [][NextLoop]_vars
    /\ WF_vars(GcCheck)
    /\ WF_vars(\E duration \in GcDurations : GcCycle(duration))

(***************************************************************************)
(* The shard locks: the calls of MemTable from the lock to its release     *)
(***************************************************************************)
TableOps == {"get", "set", "delete"}
LockClock == 1

\* the callers that hold a guard of partition i, and those whose guard is a
\* write guard
InsideShard(i) ==
    {t \in Threads : pc[t].stage = "inside" /\ get_partition_for_key(pc[t].key) = i}
WritersIn(i) == {t \in InsideShard(i) : pc[t].op # "get"}

\* (variant) a read lock that is granted whatever the partition's state
ReadAnyTime(i) == TRUE
\* partition.read() returns: no write guard of the partition is alive
ReadAvailable(i) == WritersIn(i) = {} /\ i \notin gc.held
\* partition.write() returns: no guard of the partition is alive
WriteAvailable(i) == InsideShard(i) = {} /\ i \notin gc.held

\* (variant) a sweep that keeps each guard until it returns
KeepGuard(held, i) == held
\* the guard of gc goes out of scope at the end of the loop's body
DropGuard(held, i) == held \ {i}

\* get, set or delete up to its lock call: the partition is chosen, set has
\* computed expires_at
TableCall(t, op, k, v, ttl) ==
    /\ up = "up" /\ pc[t] = Idle
    /\ pc' = [pc EXCEPT ![t] = [Idle EXCEPT !.op = op, !.key = k, !.value = v,
                                            !.ttl = ttl, !.stage = "called",
                                            !.at = now]]
    /\ ret' = NoRet
    /\ UNCHANGED <<now, partitions, poisoned, file, aof, up, aofPoisoned, stats,
                   written, recs, damage, iofails, gc, chaos>>

\* partition.read() / partition.write() returns; on a poisoned lock the call
\* is over
TableLock(t) ==
    /\ pc[t].stage = "called"
    /\ LET i == get_partition_for_key(pc[t].key)
       IN  /\ IF pc[t].op = "get" THEN ReadAvailable(i) ELSE WriteAvailable(i)
           /\ IF i \in poisoned
              THEN /\ pc' = [pc EXCEPT ![t] = Idle]
                   /\ ret' = [NoRet EXCEPT
                                !.op = pc[t].op, !.key = pc[t].key,
                                !.ok = pc[t].op = "get",
                                !.err = IF pc[t].op = "get" THEN ""
                                        ELSE "Failed to acquire write lock"]
              ELSE /\ pc' = [pc EXCEPT ![t].stage = "inside"]
                   /\ ret' = NoRet
    /\ UNCHANGED <<now, partitions, poisoned, file, aof, up, aofPoisoned, stats,
                   written, recs, damage, iofails, gc, chaos>>

\* the body under the guard and the guard's drop
TableExit(t) ==
    /\ pc[t].stage = "inside"
    /\ LET k == pc[t].key
           i == get_partition_for_key(k)
       IN  /\ partitions' =
                 IF pc[t].op = "set"
                 THEN MemSet(partitions, poisoned, k, pc[t].value, pc[t].ttl,
                             pc[t].at).parts
                 ELSE IF pc[t].op = "delete"
                 THEN MemDelete(partitions, poisoned, k).parts
                 ELSE partitions
           /\ written' =
                 IF k \notin DOMAIN written \/ pc[t].op = "get" THEN written
                 ELSE IF pc[t].op = "set"
                 THEN [written EXCEPT ![k] = WroteSet(pc[t].value, pc[t].ttl,
                                                      pc[t].at)]
                 ELSE [written EXCEPT ![k] = WroteDelete]
           /\ ret' = [NoRet EXCEPT
                        !.op = pc[t].op, !.key = k,
                        !.val = IF pc[t].op = "get"
                                THEN MemGet(partitions, poisoned, k, now)
                                ELSE IF pc[t].op = "delete"
                                THEN <<MemDelete(partitions, poisoned, k).val>>
                                ELSE <<>>]
    /\ pc' = [pc EXCEPT ![t] = Idle]
    /\ UNCHANGED <<now, poisoned, file, aof, up, aofPoisoned, stats, recs, damage,
                   iofails, gc, chaos>>

\* MemTable::gc up to its loop: let now = Instant::now()
SweepCall ==
    /\ up = "up" /\ gc.at = NumShards
    /\ gc' = [gc EXCEPT !.at = 0, !.sweep_now = now, !.total_removed = 0]
    /\ ret' = NoRet
    /\ UNCHANGED <<now, partitions, poisoned, file, aof, up, aofPoisoned, stats,
                   pc, written, recs, damage, iofails, chaos>>

\* partition.write() of the loop returns; a poisoned partition is passed over
SweepLock ==
    /\ gc.at < NumShards /\ gc.at \notin gc.held
    /\ WriteAvailable(gc.at)
    /\ gc' = IF gc.at \in poisoned THEN [gc EXCEPT !.at = @ + 1]
             ELSE [gc EXCEPT !.held = @ \cup {gc.at}]
    /\ ret' = IF gc.at \in poisoned /\ gc.at + 1 = NumShards
              THEN [NoRet EXCEPT !.op = "gc", !.val = <<gc.total_removed>>]
              ELSE NoRet
    /\ UNCHANGED <<now, partitions, poisoned, file, aof, up, aofPoisoned, stats,
                   pc, written, recs, damage, iofails, chaos>>

\* the loop's body under the guard, and the end of the body
SweepShard ==
    /\ gc.at < NumShards /\ gc.at \in gc.held
    /\ \E g \in {GcPartition(partitions, poisoned, gc.at, gc.sweep_now)} :
           /\ partitions' = [partitions EXCEPT ![gc.at] = g.map]
           /\ written' = SweptFrom(partitions, partitions')
           /\ gc' = [gc EXCEPT !.held = DropGuard(@, gc.at), !.at = @ + 1,
                               !.total_removed = @ + g.removed]
           /\ ret' = IF gc.at + 1 = NumShards
                     THEN [NoRet EXCEPT !.op = "gc",
                                        !.val = <<gc.total_removed + g.removed>>]
                     ELSE NoRet
    /\ UNCHANGED <<now, poisoned, file, aof, up, aofPoisoned, stats, pc, recs,
                   damage, iofails, chaos>>

\* callers of the Table and a sweep, lock by lock
NextLocks ==
    \/ now < LockClock /\ Tick
    \/ \E t \in Threads, op \in TableOps, k \in Keys, v \in LogValues,
          ttl \in GcTtls :
          TableCall(t, op, k, v, ttl)
    \/ \E t \in Threads : TableLock(t)
    \/ \E t \in Threads : TableExit(t)
    \/ SweepCall
    \/ SweepLock
    \/ SweepShard

SpecLocks == Init /\ [][NextLocks]_vars

(***************************************************************************)
(* The recovery entry points of the Table, called on a Table in any state  *)
(***************************************************************************)
\* MemTable::recover_set
RecoverSet(k, v, ttl) ==
    /\ up = "up" /\ AllIdle
    /\ \E m \in {recover_set(partitions, poisoned, k, v, ttl, now)} :
           /\ partitions' = m.parts
           /\ written' = IF m.ok /\ k \in DOMAIN written
                          THEN [written EXCEPT ![k] = WroteSet(v, ttl, now)]
                          ELSE written
           /\ ret' = [NoRet EXCEPT !.op = "recover_set", !.key = k, !.ok = m.ok,
                                   !.err = m.err,
                                   !.aux = [pre |-> partitions, value |-> v,
                                            ttl |-> ttl, file |-> file,
                                            aof |-> aof]]
    /\ UNCHANGED <<now, poisoned, file, aof, up, aofPoisoned, stats, pc, recs,
                   damage, iofails, gc, chaos>>

\* MemTable::recover_delete
RecoverDelete(k) ==
    /\ up = "up" /\ AllIdle
    /\ \E m \in {recover_delete(partitions, poisoned, k)} :
           /\ partitions' = m.parts
           /\ written' = IF m.ok /\ k \in DOMAIN written
                          THEN [written EXCEPT ![k] = WroteDelete]
                          ELSE written
           /\ ret' = [NoRet EXCEPT !.op = "recover_delete", !.key = k,
                                   !.ok = m.ok, !.err = m.err,
                                   !.val = IF m.ok THEN <<m.val>> ELSE <<>>,
                                   !.aux = [pre |-> partitions, file |-> file,
                                            aof |-> aof]]
    /\ UNCHANGED <<now, poisoned, file, aof, up, aofPoisoned, stats, pc, recs,
                   damage, iofails, gc, chaos>>

\* the recovery entry points next to the calls of the State
NextRecover ==
    \/ now < LockClock /\ Tick
    \/ \E k \in Keys, v \in LogValues :
          StateSet(Caller, k, v, None, IoOk, MaxElapsed)
    \/ \E k \in Keys, v \in LogValues, ttl \in {None} \cup GcTtls :
          RecoverSet(k, v, ttl)
    \/ \E k \in Keys : RecoverDelete(k)
    \/ \E i \in Shards : PoisonShard(i)

SpecRecover == Init /\ [][NextRecover]_vars

\* two callers that set the same keys to different values
NextRace ==
    \/ \E t \in Threads, k \in Keys, v \in Values :
          StateSetTable(t, k, v, None, MaxElapsed)
    \/ \E t \in Threads : AofLock(t)
    \/ \E t \in Threads : AofWriteAll(t)
    \/ \E t \in Threads, n \in {HeaderSize, Len(aof.wbuf)} : AofFlushWrite(t, n)
    \/ \E t \in Threads : AofReturn(t, MaxElapsed)

SpecRace == Init /\ [][NextRace]_vars

(***************************************************************************)
(* Reference results the claims compare the program with                   *)
(***************************************************************************)
\* the ttl a Set record carries, as an Option<Duration>
RecordTtl(rec) == IF rec.ttl_ms = 0 THEN None ELSE Some(rec.ttl_ms * TicksPerMs)

\* records rs[i..] applied in file order to the Table parts through the
\* recovery entry points
RECURSIVE ApplyRecords(_, _, _, _)
ApplyRecords(parts, rs, i, t) ==
    IF i > Len(rs) THEN parts
    ELSE IF rs[i].cmd = CmdSet
    THEN ApplyRecords(recover_set(parts, {}, rs[i].key, rs[i].value,
                                  RecordTtl(rs[i]), t).parts, rs, i + 1, t)
    ELSE ApplyRecords(recover_delete(parts, {}, rs[i].key).parts, rs, i + 1, t)

\* the records that lie wholly before byte offset pos of the file
RecordsBefore(pos) ==
    Cardinality({i \in 1..Len(recs) : recs[i].off + recs[i].len <= pos})

\* the bytes of the records the log took whole, from record i on
RECURSIVE RecsLen(_)
RecsLen(i) == IF i > Len(recs) THEN 0 ELSE recs[i].len + RecsLen(i + 1)

\* the entry the Table holds for key, if any
Holds(parts, key) == key \in DOMAIN parts[get_partition_for_key(key)]
Held(parts, key) == parts[get_partition_for_key(key)][key]

\* the entries of all shards together
RECURSIVE CountFrom(_, _)
CountFrom(parts, idx) ==
    IF idx = NumShards THEN 0
    ELSE Cardinality(DOMAIN parts[idx]) + CountFrom(parts, idx + 1)

(***************************************************************************)
(* C1..C10                                                                 *)
(***************************************************************************)
\* C1: after Set and Delete records have been appended and the log has been
\* closed and reopened (file unaltered), get(K) on the Table the State is
\* given returns, for every key K, what applying the records in file order
\* to an empty Table returns.
C1_LogRoundTrip ==
    (ret.op = "open" /\ ret.ok /\ damage = NoDamage) =>
        \A k \in LogKeys :
            MemGet(partitions, poisoned, k, now)
            = MemGet(ApplyRecords(with_partitions(NumShards), recs, 1, now), {}, k, now)

\* C2: set(K, V, no ttl) followed by get(K), with no write to K in between,
\* returns exactly V: on the Table (at every moment after the set) and
\* through State.get.
C2_SetThenGet ==
    /\ \A k \in Keys :
          (written[k].kind = "set" /\ written[k].ttl = None) =>
              MemGet(partitions, poisoned, k, now) = Some(written[k].value)
    /\ (ret.op = "get" /\ ret.prior.kind = "set" /\ ret.prior.ttl = None) =>
          ret.val = Some(ret.prior.value)

C2_Witness ==
    /\ ret.op = "get" /\ ret.prior.kind = "set" /\ ret.prior.ttl = None
    /\ ret.val = Some(<<118, 50>>)

\* C3: delete(K) after a set(K, V) whose entry no sweep has removed returns
\* true, and get(K) is absent from then on until K is written again;
\* delete(K) of a key never set returns false.
C3_Delete ==
    /\ (ret.op = "delete" /\ ret.ok /\ ret.prior.kind = "set" /\ ~ret.prior.swept) =>
          ret.val = TRUE
    /\ (ret.op = "delete" /\ ret.ok /\ ret.prior.kind = "never") => ret.val = FALSE
    /\ \A k \in Keys :
          written[k].kind = "delete" => MemGet(partitions, poisoned, k, now) = None
    /\ (ret.op = "get" /\ ret.prior.kind = "delete") => ret.val = None

C3_Witness ==
    /\ ret.op = "delete" /\ ret.ok /\ ret.prior.kind = "set" /\ ret.val = TRUE
    /\ MemGet(partitions, poisoned, ret.key, now) = None

\* C4: after set(K, V, ttl = T) at time t0, get(K) returns V while the clock
\* has not passed t0 + T and absent once it has, whether or not a sweep ran.
C4_LazyExpiry ==
    /\ \A k \in Keys :
          (written[k].kind = "set" /\ IsSome(written[k].ttl)) =>
              MemGet(partitions, poisoned, k, now)
              = IF now > written[k].at + Unwrap(written[k].ttl)
                THEN None ELSE Some(written[k].value)
    /\ (ret.op = "get" /\ ret.prior.kind = "set" /\ IsSome(ret.prior.ttl)) =>
          ret.val = IF now > ret.prior.at + Unwrap(ret.prior.ttl)
                    THEN None ELSE Some(ret.prior.value)

\* the entry is past its expiry, still in its map, and get gives absent
C4_Witness ==
    \E k \in Keys :
        /\ written[k].kind = "set" /\ IsSome(written[k].ttl) /\ ~written[k].swept
        /\ now > written[k].at + Unwrap(written[k].ttl)
        /\ Holds(partitions, k)
        /\ ret.op = "get" /\ ret.key = k /\ ret.val = None

\* C5: one sweep removes exactly the entries whose expiry is before the
\* sweep's clock reading, leaves every other entry as it was, and returns the
\* number removed over all shards; an entry stored without a TTL stays in
\* the Table whatever the clock says.
C5_Sweep ==
    /\ ret.op = "gc" =>
          /\ \A i \in Shards :
                /\ DOMAIN partitions[i]
                   = {k \in DOMAIN ret.aux.pre[i] :
                         ~(IsSome(ret.aux.pre[i][k].expires_at)
                           /\ Unwrap(ret.aux.pre[i][k].expires_at) < ret.aux.now)}
                /\ \A k \in DOMAIN partitions[i] : partitions[i][k] = ret.aux.pre[i][k]
          /\ ret.val = CountFrom(ret.aux.pre, 0) - CountFrom(partitions, 0)
    /\ \A k \in Keys :
          (written[k].kind = "set" /\ written[k].ttl = None) =>
              /\ Holds(partitions, k)
              /\ Held(partitions, k).value = written[k].value

\* a sweep that removed one entry and left one without a TTL
C5_Witness ==
    /\ ret.op = "gc" /\ ret.val = 1 /\ now = MaxClock
    /\ CountFrom(ret.aux.pre, 0) = 2
    /\ \E k \in Keys : written[k].kind = "set" /\ written[k].ttl = None

\* C6: when one byte of an appended record has been flipped, reopening the
\* log succeeds and replays the records before the altered one and no other.
C6_CorruptionTolerance ==
    (ret.op = "open" /\ damage.kind = "flip") =>
        /\ ret.ok
        /\ ret.val = RecordsBefore(damage.pos)

\* C7: when the file has been cut inside its last record, opening the log
\* succeeds and replays the complete records before the torn one.
C7_TornWrite ==
    (ret.op = "open" /\ damage.kind = "cut") =>
        /\ ret.ok
        /\ ret.val = RecordsBefore(damage.pos)

\* C8: after an open that succeeded, the replayed-record count is the number
\* of records that lie before the first altered byte of the file, and the
\* number of all records when no byte was altered.
C8_ReplayCount ==
    (ret.op = "open" /\ ret.ok) =>
        ret.val = IF damage = NoDamage THEN Len(recs) ELSE RecordsBefore(damage.pos)

\* two records, the second one altered: one is replayed
C8_Witness ==
    /\ ret.op = "open" /\ ret.ok /\ damage.kind = "flip"
    /\ Len(recs) = 2 /\ ret.val = 1

\* C9: State.set appends its record only after its Table write took effect,
\* and a State.set whose Table write fails returns a failure, leaves the log
\* (file, writer, records) as it was and has nothing left to do.
C9_TableFirst ==
    [][ /\ (recs' # recs /\ recs'[Len(recs')].cmd = CmdSet) =>
              /\ pc[Caller].op = "set"
              /\ Holds(partitions, pc[Caller].key)
              /\ Held(partitions, pc[Caller].key).value = pc[Caller].value
              /\ recs'[Len(recs')].key = pc[Caller].key
        /\ (ret'.op = "set" /\ ~ret'.tableOk) =>
              /\ ~ret'.ok
              /\ file' = file /\ aof' = aof /\ recs' = recs
              /\ pc'[Caller] = Idle ]_vars

C9_Witness ==
    /\ ret.op = "set" /\ ~ret.tableOk /\ ~ret.ok
    /\ get_partition_for_key(ret.key) \in poisoned
    /\ ~Holds(partitions, ret.key)

C11_ValidationLeavesState ==
    (ret.op \in {"set", "delete"} /\ Len(ret.key) > U16Max) =>
        /\ ~ret.ok
        /\ Holds(partitions, ret.key) => ret.aux.held
        /\ file = ret.aux.file

\* C12: State.set adds one to the write count (and the elapsed time to the
\* write latency) on every call, whichever branch it takes, and State.delete
\* adds one to the delete count on every call: the step in which a call
\* returns is a step in which its counter goes up by one.
C12_MetricsEveryCall ==
    [][ /\ ret'.op = "set" => stats'.writes = stats.writes + 1
        /\ ret'.op = "delete" => stats'.deletes = stats.deletes + 1
      ]_vars

\* the bytes of the i-th record the log took, as its append built them
RecEntry(i) == EntryBuf(recs[i].cmd, recs[i].key, recs[i].value, recs[i].ttl_ms, now)
LastEntry == RecEntry(Len(recs))

\* the file holds that record at byte offset off
RecordAt(off, entry) == SubSeq(file, off + 1, off + Len(entry)) = entry

\* C13: a successful append returns the byte offset at which its record
\* starts in the file, which is the write cursor before the append; the
\* cursor then stands one record size further, and the offsets returned
\* strictly increase.
C13_ReturnedOffset ==
    (ret.op \in {"append_set", "append_delete"} /\ ret.ok) =>
        /\ ret.val = ret.aux.position
        /\ aof.position = ret.val + recs[Len(recs)].len
        /\ RecordAt(ret.val, LastEntry)
        /\ \A i \in 1..(Len(recs) - 1) : recs[i].off < recs[i + 1].off

\* scenario B: the log has taken append_set(b"k", b"v", Some(5s)) and then
\* append_set(b"k2", b"v2", None), starting empty, and no write has failed
ScenarioB ==
    /\ iofails = 0 /\ Len(recs) = 2
    /\ recs[1] = Rec(CmdSet, <<107>>, <<118>>, 5000, recs[1].off)
    /\ recs[2] = Rec(CmdSet, <<107, 50>>, <<118, 50>>, 0, recs[2].off)

\* C14 as the spec words it: in scenario B the first append returns 0 and the
\* second returns the byte length of the first record, given as
\* header length + 1 + 2.
C14_ScenarioB_AsWorded ==
    ScenarioB => recs[1].off = 0 /\ recs[2].off = HeaderSize + 1 + 2

\* C14: in scenario B the first append returns 0 and the second returns the
\* byte length of the first record, which is header length + 1 + 1 (a
\* one-byte key and a one-byte value).
C14_ScenarioB ==
    ScenarioB => recs[1].off = 0 /\ recs[2].off = HeaderSize + 1 + 1

C14_Witness ==
    /\ ScenarioB
    /\ ret.op = "append_set" /\ ret.ok /\ ret.key = <<107, 50>>
    /\ ret.val = recs[1].len /\ ret.val = 37

\* C15: for every key and value the log accepts, the header's 32-bit size
\* field is header length + key length + value length, with no wrap modulo
\* 2^32: read as a number, the field is the full sum.
C15_SizeFieldExact ==
    (ret.op = "header" /\ ret.ok) =>
        ret.aux.size \o <<0, 0, 0, 0>>
        = AddLE(AddLE(LE(HeaderSize, 8), ret.aux.key_len), ret.aux.value_len)

\* C16: with any number of threads calling, at most one append is in flight
\* (between taking the guard of the log and dropping it), and the bytes of
\* each record lie together in the file: the file is the records the log
\* has taken, each whole at its own offset, followed by nothing but the part
\* already written of the one record in flight.
C16_OneAppendInFlight ==
    /\ Cardinality({t \in Threads : pc[t].stage \in Locked}) <= 1
    /\ \A i \in 1..Len(recs) : RecordAt(recs[i].off, RecEntry(i))
    /\ \A t \in Threads :
          pc[t].stage = "buffered" =>
              SubSeq(file, RecsLen(1) + 1, Len(file)) \o aof.wbuf = EntryOf(t)
    /\ (\A t \in Threads : pc[t].stage # "buffered") => Len(file) = RecsLen(1)

\* one call is half-way through its flush while the other call, its Table
\* write done, waits for the guard
C16_Witness ==
    \E t \in Threads, u \in Threads :
        /\ t # u
        /\ pc[t].stage = "buffered" /\ Len(file) = RecsLen(1) + HeaderSize
        /\ pc[u].op = "set" /\ pc[u].stage = "table"
        /\ ~ENABLED AofLock(u)

\* C17: no lock spans the Table write and the log append of one call, so the
\* two orders are independent: once two calls on different shards have both
\* written the Table, either of them may take the guard of the log first,
\* whichever wrote the Table first; and while one call is between its two
\* halves another call may begin and write the Table.
C17_OrdersIndependent ==
    \A t \in Threads : \A u \in Threads \ {t} :
        /\ (pc[t].stage = "table" /\ pc[u].stage = "table") =>
              ENABLED AofLock(t) /\ ENABLED AofLock(u)
        /\ (pc[t].stage = "table" /\ pc[u] = Idle /\ TableWrites < MaxRecs) =>
              \A k \in Keys :
                  get_partition_for_key(k) # get_partition_for_key(pc[t].key) =>
                      ENABLED StateSetTable(u, k, <<118>>, None, MaxElapsed)

\* call A wrote the Table first (seq 1), call B second, on another shard;
\* B's record is the first in the log and A's, just appended, the second
C17_Witness ==
    /\ ret.op = "set" /\ ret.logged /\ ret.aux.seq = 1
    /\ Len(recs) = 2 /\ recs[2].key = ret.key /\ recs[1].cmd = CmdSet
    /\ get_partition_for_key(recs[1].key) # get_partition_for_key(recs[2].key)
    /\ Holds(partitions, recs[1].key) /\ Holds(partitions, recs[2].key)

\* C18: the log file is append-only while the log is open: the file as it
\* was before an append_set / append_delete call is an unchanged prefix of
\* the file after it, whether the call succeeded or failed.
C18_AppendOnly ==
    [][ ret'.op \in {"append_set", "append_delete"} =>
            /\ Len(file') >= Len(file)
            /\ SubSeq(file', 1, Len(file)) = file
      ]_vars

\* a second record has been appended to a file that held the first
C18_Witness ==
    /\ ret.op \in {"append_set", "append_delete"} /\ ret.ok
    /\ Len(recs) = 2
    /\ ret.aux.file # <<>> /\ Len(file) > Len(ret.aux.file)
    /\ SubSeq(file, 1, Len(ret.aux.file)) = ret.aux.file

\* C19: whenever open returns successfully (empty file, complete replay, or
\* a replay that stopped early at a CRC mismatch) the offset at which the
\* next append is written and the write cursor both equal the end of the
\* file.
C19_OpenAtEnd ==
    (ret.op = "open" /\ ret.ok) =>
        aof.fpos = Len(file) /\ aof.position = Len(file)

\* the replay stopped at a flipped byte before the end of a file of two records
C19_Witness ==
    /\ ret.op = "open" /\ ret.ok
    /\ damage.kind = "flip" /\ Len(recs) = 2 /\ ret.val < 2
    /\ aof.position = Len(file) /\ Len(file) > 2 * HeaderSize

\* C20: an append that fails with an I/O error is not partially applied: the
\* error is returned, the write cursor is not advanced, and the offset the
\* next successful append returns is the byte offset at which the file holds
\* that record.
C20_FailedAppendNotApplied ==
    ret.op \in {"append_set", "append_delete"} =>
        /\ (~ret.ok /\ ret.err = "io") => aof.position = ret.aux.position
        /\ (ret.ok /\ iofails > 0) => RecordAt(ret.val, LastEntry)

\* byte offset pos is the command tag of a record, or lies in its key or value
TagOrBody(pos) ==
    \E i \in 1..Len(recs) :
        \/ pos = recs[i].off + 12
        \/ recs[i].off + HeaderSize <= pos /\ pos < recs[i].off + recs[i].len

\* C21: a record that passes its integrity check but carries a tag other
\* than Set (1) or Delete (2) makes replay fail with a hard error: open
\* returns the error and there is no log.  A CRC mismatch (here: a flipped
\* tag byte, key byte or value byte of a record) is another outcome: open
\* succeeds with the records before the damaged one counted.
C21_UnknownTagAborts ==
    /\ (ret.op = "open" /\ damage.kind = "tag") =>
          ~ret.ok /\ ret.err = "Unknown command type" /\ up = "failed"
    /\ (ret.op = "open" /\ damage.kind = "flip" /\ TagOrBody(damage.pos)) =>
          ret.ok /\ up = "up" /\ ret.val = RecordsBefore(damage.pos)

\* the file holds a record of this program and after it a record with an
\* unknown tag; open has failed
C21_Witness ==
    /\ ret.op = "open" /\ ~ret.ok /\ ret.err = "Unknown command type"
    /\ damage.kind = "tag" /\ Len(recs) = 1 /\ damage.pos = recs[1].len

\* C22: a Table operation that cannot take its shard lock (a lock poisoned
\* by a panic elsewhere) reports a failure to its caller and is never
\* silently ignored: a get, set or delete whose key lies on a poisoned shard
\* returns a failure, and so does a sweep when any shard is poisoned.
C22_LockFailureReported ==
    /\ (ret.op \in {"get", "set", "delete"}
        /\ get_partition_for_key(ret.key) \in poisoned) => ~ret.ok
    /\ (ret.op = "gc" /\ poisoned # {}) => ~ret.ok

\* C23: get never changes the Table: the step of a get leaves every shard as
\* it was, and when the get found an entry whose expiry is in the past it
\* reports absent and that entry is still in its shard, with its value.
C23_GetLeavesTable ==
    [][ ret'.op = "get" =>
            /\ partitions' = partitions
            /\ (Holds(partitions, ret'.key)
                /\ Expired(Held(partitions, ret'.key), now)) =>
                   /\ ret'.val = None
                   /\ Holds(partitions', ret'.key)
                   /\ Held(partitions', ret'.key) = Held(partitions, ret'.key)
      ]_vars

\* a get has reported absent for an entry that is past its expiry and the
\* entry is in its shard, next to an entry of another key
C23_Witness ==
    /\ ret.op = "get" /\ ret.val = None
    /\ Holds(partitions, ret.key)
    /\ Expired(Held(partitions, ret.key), now)
    /\ Held(partitions, ret.key).value = ret.prior.value
    /\ CountFrom(partitions, 0) = 2

\* avg is the integer quotient of total by count, and zero when count is zero
IsAverage(avg, total, count) ==
    IF count = 0 THEN avg = 0
    ELSE avg * count <= total /\ total < (avg + 1) * count

\* C24: get_stats returns the cumulative read, write and delete counts, and
\* for reads and for writes the cumulative latency divided (integer
\* division) by the count, zero when the count is zero; and no count ever
\* decreases.
C24_Stats ==
    [][ /\ ret'.op = "stats" =>
              /\ ret'.val.reads = stats.reads
              /\ ret'.val.writes = stats.writes
              /\ ret'.val.deletes = stats.deletes
              /\ IsAverage(ret'.val.avg_read_latency, stats.read_latency_ns, stats.reads)
              /\ IsAverage(ret'.val.avg_write_latency, stats.write_latency_ns,
                           stats.writes)
        /\ stats'.reads >= stats.reads
        /\ stats'.writes >= stats.writes
        /\ stats'.deletes >= stats.deletes
      ]_vars

\* two writes with a cumulative latency of one: the average is zero; no
\* read has been made and the read average is zero
C24_Witness ==
    /\ ret.op = "stats"
    /\ stats.writes = 2 /\ stats.write_latency_ns = 1 /\ ret.val.avg_write_latency = 0
    /\ stats.reads = 0 /\ ret.val.avg_read_latency = 0
    /\ ret.val.writes = 2

\* C25: run_now performs exactly one sweep and folds it into the statistics:
\* after n calls the cycle counter is n, the collected counter is the sum of
\* the counts the calls returned, and the last-run timestamp is set.
C25_RunNowCounts ==
    [][ /\ ret'.op = "run_now" =>
              /\ gc'.calls = gc.calls + 1
              /\ gc'.cycles = gc.cycles + 1
              /\ gc'.collected = gc.collected + ret'.val
              /\ gc'.last_run = Some(now)
              /\ partitions' = MemGc(partitions, poisoned, now).parts
              /\ ret'.val = MemGc(partitions, poisoned, now).total_removed
        /\ gc'.cycles = gc'.calls
        /\ gc'.collected = gc'.returned
        /\ gc'.calls > 0 => IsSome(gc'.last_run)
        /\ ret'.op = "gc_stats" =>
              /\ ret'.val.cycles = gc.calls
              /\ ret'.val.collected = gc.returned
      ]_<<gc, ret.op>>

\* the second call has returned, after the two calls took out both keys
C25_Witness ==
    /\ ret.op = "run_now"
    /\ gc.calls = 2 /\ gc.cycles = 2
    /\ gc.returned = 2 /\ gc.collected = 2
    /\ IsSome(gc.last_run)

\* C26: every cycle the background loop performs is counted in the cycle and
\* removal counters the collector's get_stats returns.
C26_BackgroundCounted ==
    ret.op = "gc_stats" =>
        /\ ret.val.cycles = gc.calls + gc.bg_sweeps
        /\ ret.val.collected = gc.returned + gc.bg_removed

\* C27: once the stop signal is set the loop ends, after at most one further
\* sweep; a loop started with the signal already set sweeps nothing.
C27_StopEndsLoop ==
    /\ [](/\ gc.after_stop <= 1
          /\ gc.late => gc.bg_sweeps = 0)
    /\ (gc.should_stop # 0 /\ gc.thread \in {"check", "sleep"})
           ~> (gc.thread = "stopped")

\* the signal came during a sleep: the loop swept once more and ended
C27_Witness ==
    /\ gc.thread = "stopped"
    /\ gc.should_stop = 1
    /\ gc.after_stop = 1
    /\ ~gc.late

\* the guards alive on partition i: those of the callers and that of a sweep
GuardsOn(i) == Cardinality(InsideShard(i)) + (IF i \in gc.held THEN 1 ELSE 0)
\* the partition caller t is about to lock or has locked
ShardOf(t) == get_partition_for_key(pc[t].key)

\* C28: operations on different shards never block each other: a get, set or
\* delete that has reached its lock call can take the lock whenever every
\* guard alive belongs to another shard; and no operation (a sweep included)
\* holds the locks of two shards at once.
C28_ShardsIndependent ==
    /\ \A t \in Threads :
          (/\ pc[t].stage = "called"
           /\ GuardsOn(ShardOf(t)) = 0) => ENABLED TableLock(t)
    /\ Cardinality(gc.held) <= 1
    /\ \A t \in Threads :
          Cardinality({i \in Shards : t \in InsideShard(i)}) <= 1

\* a caller is inside one shard, a sweep holds the guard of another, and a
\* second caller at its lock call on a third shard can go on
C28_Witness ==
    \E t \in Threads, u \in Threads :
        /\ pc[t].stage = "inside" /\ pc[t].op = "set"
        /\ pc[u].stage = "called"
        /\ gc.held # {}
        /\ ShardOf(u) # ShardOf(t)
        /\ ShardOf(u) \notin gc.held /\ ShardOf(t) \notin gc.held
        /\ ENABLED TableLock(u)

\* C29 (as worded): at no instant are two operations (get, set, delete or
\* the sweep of that shard) inside the same shard's critical section.
C29_AllExclusive == \A i \in Shards : GuardsOn(i) <= 1

\* C29: while a set, a delete or the sweep of a shard is inside the shard's
\* critical section no other operation is inside it; gets take the lock in
\* shared mode and exclude only the writers.
C29_WritersExclusive ==
    \A i \in Shards :
        (WritersIn(i) # {} \/ i \in gc.held) => GuardsOn(i) = 1

\* a set is inside a shard and a get of the same shard waits at its lock call
C29_Witness ==
    \E t \in Threads, u \in Threads :
        /\ pc[t].stage = "inside" /\ pc[t].op = "set"
        /\ pc[u].stage = "called" /\ pc[u].op = "get"
        /\ ShardOf(u) = ShardOf(t)
        /\ ~ENABLED TableLock(u)

\* FNV-1a 64 of b"a" and of b"k" by its published definition, little-endian:
\* 0xaf63dc4c8601ec8c and 0xaf63e64c8601fd8a
Fnv1a64 ==
    (<<97>> :> <<140, 236, 1, 134, 76, 220, 99, 175>>)
    @@ (<<107>> :> <<138, 253, 1, 134, 76, 230, 99, 175>>)

\* C30: the shard of a key is FNV-1a-64 of its bytes modulo the shard count,
\* it lies in 0..N-1, the Table always has its N shards, and every key the
\* Table holds is in the shard selected for it and in no other.
C30_PartitionDeterminism ==
    /\ DOMAIN partitions = Shards
    /\ \A k \in Keys :
          /\ hash_key(k) = Fnv1a64[k]
          /\ get_partition_for_key(k) = ModLE(Fnv1a64[k], NumShards, 1)
          /\ get_partition_for_key(k) \in Shards
    /\ \A i \in Shards : \A k \in DOMAIN partitions[i] :
          /\ i = get_partition_for_key(k)
          /\ \A j \in Shards \ {i} : k \notin DOMAIN partitions[j]

\* both keys are stored, each in the shard its hash selects, and a get has
\* found one of them there
C30_Witness ==
    /\ \A k \in Keys : k \in DOMAIN partitions[get_partition_for_key(k)]
    /\ \E k \in Keys, l \in Keys : get_partition_for_key(k) # get_partition_for_key(l)
    /\ ret.op = "get" /\ IsSome(ret.val)

\* the Entry a set builds: the value and ttl.map(|d| now + d)
EntryOfWrite(w) == [value |-> w.value, expires_at |-> ExpiresAt(w.ttl, w.at)]

\* C31: an overwrite replaces the entry wholesale, expiry included: the
\* entry a key holds is the one its last set built, whatever entry that set
\* found; after an overwrite without a TTL get returns the new value at
\* every later time and no sweep removes the key; after an overwrite with a
\* TTL T the key expires T after that set.
C31_OverwriteWholesale ==
    /\ [](\A k \in Keys :
            written[k].kind = "set" =>
               /\ written[k].ttl = None => ~written[k].swept
               /\ ~written[k].swept =>
                     /\ k \in DOMAIN partitions[get_partition_for_key(k)]
                     /\ partitions[get_partition_for_key(k)][k]
                        = EntryOfWrite(written[k])
               /\ MemGet(partitions, poisoned, k, now)
                  = IF IsSome(written[k].ttl)
                       /\ now > written[k].at + Unwrap(written[k].ttl)
                    THEN None ELSE Some(written[k].value))
    /\ [][\A k \in Keys :
            (/\ k \in DOMAIN partitions[get_partition_for_key(k)]
             /\ written'[k] # written[k]
             /\ written'[k].kind = "set" /\ ~written'[k].swept) =>
                partitions'[get_partition_for_key(k)][k]
                = [value |-> written'[k].value,
                   expires_at |-> ExpiresAt(written'[k].ttl, now)]
        ]_<<partitions, written>>

\* a set without a TTL has replaced an entry that had one; the old expiry is
\* past and get still finds the new value
C31_Witness ==
    /\ ret.op = "set" /\ ret.ok
    /\ ret.prior.kind = "set" /\ IsSome(ret.prior.ttl) /\ ~ret.prior.swept
    /\ now > ret.prior.at + Unwrap(ret.prior.ttl)
    /\ written[ret.key].kind = "set" /\ written[ret.key].ttl = None
    /\ written[ret.key].value # ret.prior.value
    /\ MemGet(partitions, poisoned, ret.key, now) = Some(written[ret.key].value)

\* C32: from the same Table and the same clock reading recover_set leaves
\* the Table set leaves and succeeds when set succeeds, recover_delete
\* leaves the Table delete leaves and returns the boolean delete returns,
\* and neither changes the log.
C32_RecoverSameAsWrite ==
    /\ ret.op = "recover_set" =>
          /\ partitions = MemSet(ret.aux.pre, poisoned, ret.key, ret.aux.value,
                                 ret.aux.ttl, now).parts
          /\ ret.ok = MemSet(ret.aux.pre, poisoned, ret.key, ret.aux.value,
                             ret.aux.ttl, now).ok
          /\ file = ret.aux.file /\ aof = ret.aux.aof
    /\ ret.op = "recover_delete" =>
          /\ partitions = MemDelete(ret.aux.pre, poisoned, ret.key).parts
          /\ ret.ok = MemDelete(ret.aux.pre, poisoned, ret.key).ok
          /\ ret.ok => ret.val = <<MemDelete(ret.aux.pre, poisoned, ret.key).val>>
          /\ file = ret.aux.file /\ aof = ret.aux.aof

\* a recover_set with a TTL has replaced an entry a State.set stored and
\* logged; the log is as that set left it
C32_Witness ==
    /\ ret.op = "recover_set" /\ ret.ok /\ IsSome(ret.aux.ttl)
    /\ ret.key \in DOMAIN ret.aux.pre[get_partition_for_key(ret.key)]
    /\ Len(recs) = 1 /\ Len(file) > 0
    /\ partitions[get_partition_for_key(ret.key)][ret.key]
       = [value |-> ret.aux.value, expires_at |-> Some(now + Unwrap(ret.aux.ttl))]

\* C33: after every background cycle the smoothed average is
\* (9 * previous average + duration of this cycle) / 10 with integer
\* division, for every previous average, zero included.
C33_MovingAverage ==
    [][ gc'.bg_sweeps = gc.bg_sweeps + 1 =>
            gc'.t_avg = (9 * gc.t_avg + gc'.duration) \div 10
      ]_gc

\* the index in recs of the last record of key k, 0 when there is none
RECURSIVE LastRecOf(_, _)
LastRecOf(k, i) ==
    IF i = 0 THEN 0 ELSE IF recs[i].key = k THEN i ELSE LastRecOf(k, i - 1)

\* C34: once two State.set calls on the same key have both returned success
\* the value the Table holds for the key is the value of the last Set record
\* of the key in the log.
C34_TableMatchesLog ==
    \A k \in Keys :
        (/\ AllIdle
         /\ LastRecOf(k, Len(recs)) > 0
         /\ recs[LastRecOf(k, Len(recs))].cmd = CmdSet) =>
            /\ Holds(partitions, k)
            /\ Held(partitions, k).value = recs[LastRecOf(k, Len(recs))].value

\* C35: every record whose append returned success is among the records the
\* next open of the unmodified file replays, also when the open before the
\* append stopped its replay at a CRC mismatch: an open made when records
\* have been appended since the file was last altered (or was never
\* altered) succeeds and its replay reaches the last of them.
C35_AppendedIsReplayed ==
    (ret.op = "open" /\ Len(recs) > damage.n) =>
        /\ ret.ok
        /\ ret.val >= Len(recs)

\* the header of the last record handed to the log, as the file holds it
LastHeader ==
    ParseHeader(SubSeq(file, recs[Len(recs)].off + 1,
                       recs[Len(recs)].off + HeaderSize))

\* C36: a Set issued with a TTL is written to the log with a nonzero ttl_ms,
\* for every TTL, zero and durations under one millisecond included.
C36_TtlWrittenNonzero ==
    (/\ ret.op = "set" /\ ret.ok /\ ret.logged
     /\ IsSome(written[ret.key].ttl)) =>
        /\ LastHeader.cmd_type = CmdSet
        /\ LastHeader.ttl_ms # 0

\* C37: a sweep is invisible to readers: when the sweep has worked through a
\* shard, get returns for every key what it returned before, every entry it
\* took out was already expired for get, and no entry whose set read the
\* clock at or after the sweep's clock reading was taken out.
C37_SweepInvisible ==
    [][ (gc.at \in gc.held /\ gc'.at = gc.at + 1) =>
            \A k \in Keys :
                /\ MemGet(partitions', poisoned, k, now)
                   = MemGet(partitions, poisoned, k, now)
                /\ (Holds(partitions, k) /\ ~Holds(partitions', k)) =>
                      /\ Expired(Held(partitions, k), now)
                      /\ written[k].kind = "set"
                      /\ written[k].at < gc.sweep_now
      ]_<<partitions, gc>>

\* the sweep has returned with one entry removed; the other key was set
\* after the sweep had read its clock and is still in its shard
C37_Witness ==
    /\ ret.op = "gc" /\ ret.val = <<1>>
    /\ \E k \in Keys :
          /\ written[k].kind = "set" /\ written[k].at >= gc.sweep_now
          /\ Holds(partitions, k)
          /\ IsSome(Held(partitions, k).expires_at)

\* the whole records the file holds, walked from byte offset off by their
\* size fields
RECURSIVE FileRecords(_, _)
FileRecords(f, off) ==
    IF off + HeaderSize > Len(f) THEN 0
    ELSE IF FromLE(SubSeq(f, off + 9, off + 12)) < HeaderSize THEN 0
    ELSE IF off + FromLE(SubSeq(f, off + 9, off + 12)) > Len(f) THEN 0
    ELSE 1 + FileRecords(f, off + FromLE(SubSeq(f, off + 9, off + 12)))

\* C38: whenever no call is in progress the number of records appended to
\* the log since open is the number of State.set and State.delete calls
\* that returned Ok: a call that returned an error appended none, and get
\* and get_stats append nothing.
C38_RecordsEqualOkCalls ==
    AllIdle => FileRecords(file, 0) = Len(recs)

\* C39: delete(K) reports the physical presence of the entry: it answers
\* true exactly when the shard held an entry for K, an expired entry no
\* sweep has taken included (get(K) was absent already), it removes the
\* entry, and the caller receives that answer.
C39_DeleteReportsPresence ==
    [][ \A t \in DOMAIN pc :
            /\ (pc[t] = Idle /\ pc'[t].op = "delete") =>
                  /\ pc'[t].exists = Holds(partitions, pc'[t].key)
                  /\ ~Holds(partitions', pc'[t].key)
                  /\ (/\ Holds(partitions, pc'[t].key)
                      /\ Expired(Held(partitions, pc'[t].key), now)) =>
                        /\ MemGet(partitions, poisoned, pc'[t].key, now) = None
                        /\ pc'[t].exists
            /\ (pc[t].op = "delete" /\ pc'[t] = Idle /\ ret'.ok) =>
                  ret'.val = pc[t].exists
      ]_<<pc, partitions>>

C39_Witness ==
    \E t \in DOMAIN pc :
        /\ pc[t].op = "delete" /\ pc[t].stage = "table" /\ pc[t].exists
        /\ pc[t].prior.kind = "set" /\ IsSome(pc[t].prior.ttl)
        /\ pc[t].at > pc[t].prior.at + Unwrap(pc[t].prior.ttl)
        /\ ~Holds(partitions, pc[t].key)

(***************************************************************************)
(* ChaosEngine: start_chaos, the chaos thread, is_active                   *)
(***************************************************************************)
\* the durations a test is started with, in ticks
ChaosDurations == {0, 1, 2}

\* ChaosEngine::start_chaos: self.active.swap(true) answers the old value;
\* Err when it was true, else a new AtomicBool(false) goes to the spawned
\* thread together with chaos_type and duration
StartChaos(chaos_type, duration) ==
    /\ up = "up"
    /\ chaos' = IF chaos.active THEN chaos
                ELSE [chaos EXCEPT !.active = TRUE, !.thread = "spawned",
                                   !.local_active = <<FALSE>>,
                                   !.chaos_type = chaos_type,
                                   !.duration = duration]
    /\ ret' = [NoRet EXCEPT !.op = "start_chaos",
                            !.ok = ~chaos.active,
                            !.err = IF chaos.active
                                    THEN "Chaos test already in progress" ELSE "",
                            !.aux = [active |-> chaos.active,
                                     thread |-> chaos.thread]]
    /\ UNCHANGED <<now, partitions, poisoned, file, aof, up, aofPoisoned, stats,
                   pc, written, recs, damage, iofails, gc>>

\* the chaos thread from let start = Instant::now() through the
\* simulate_* call of its type (none of them changes the engine or the
\* State)
ChaosBegin ==
    /\ up = "up" /\ chaos.thread = "spawned"
    /\ chaos' = [chaos EXCEPT !.thread = "waiting", !.start = now]
    /\ ret' = NoRet
    /\ UNCHANGED <<now, partitions, poisoned, file, aof, up, aofPoisoned, stats,
                   pc, written, recs, damage, iofails, gc>>

\* the end of the thread: local_active.store(false, Release); local_active
\* is the AtomicBool made in start_chaos, self.active is not written
ChaosStoreComplete(c) == [c EXCEPT !.thread = "done", !.local_active = <<FALSE>>]

\* the chaos thread leaving `while start.elapsed() < duration` and marking
\* the test complete
ChaosComplete ==
    /\ up = "up" /\ chaos.thread = "waiting"
    /\ ~(now - chaos.start < chaos.duration)
    /\ chaos' = ChaosStoreComplete(chaos)
    /\ ret' = NoRet
    /\ UNCHANGED <<now, partitions, poisoned, file, aof, up, aofPoisoned, stats,
                   pc, written, recs, damage, iofails, gc>>

\* ChaosEngine::is_active: self.active.load(Relaxed)
ChaosIsActive ==
    /\ up = "up" /\ ret.op # "is_active"
    /\ ret' = [NoRet EXCEPT !.op = "is_active", !.val = <<chaos.active>>,
                            !.aux = [active |-> chaos.active,
                                     thread |-> chaos.thread]]
    /\ UNCHANGED <<now, partitions, poisoned, file, aof, up, aofPoisoned, stats,
                   pc, written, recs, damage, iofails, gc, chaos>>

\* a ChaosEngine, its callers and its thread
NextChaos ==
    \/ Tick
    \/ \E chaos_type \in ChaosTypes, duration \in ChaosDurations :
          StartChaos(chaos_type, duration)
    \/ ChaosBegin
    \/ ChaosComplete
    \/ ChaosIsActive
SpecChaos == Init /\ [][NextChaos]_vars

\* C40: start_chaos fails with "Chaos test already in progress" while a
\* test is active; once the test's thread has completed (its duration has
\* elapsed) the engine is no longer active: is_active() returns false and a
\* later start_chaos succeeds.
C40_ChaosCompletes ==
    /\ (ret.op = "start_chaos" /\ ret.aux.active) =>
          (~ret.ok /\ ret.err = "Chaos test already in progress")
    /\ chaos.thread = "done" => ~chaos.active
    /\ (ret.op = "is_active" /\ ret.aux.thread = "done") => ret.val = <<FALSE>>
    /\ (ret.op = "start_chaos" /\ ret.aux.thread = "done") => ret.ok
====
